---- MODULE Spec2Model ----
(***************************************************************************)
(* Verification model of release-viewer's sync.ts:                         *)
(*   - the Mutex counting semaphore (with its AtomicLock) that bounds the  *)
(*     concurrent downloads, as a state machine over the JavaScript        *)
(*     promise-job (microtask) queue;                                      *)
(*   - collectDiff, the snapshot diff engine, as a pure operator applied   *)
(*     to bounded pairs of configurations;                                 *)
(*   - main, the orchestrator: fix pass, download loop over the Mutex,     *)
(*     relocation, publish, remove and save, run twice over one target.    *)
(***************************************************************************)
EXTENDS Integers, Sequences, FiniteSets, TLC

(***************************************************************************)
(* Bounds of the semaphore model.                                          *)
(***************************************************************************)
MaxCap == 2
MaxCalls == 4

\* The clients: tasks that call lock()/release(), and callers of waitAll().
Lockers == {"T1", "T2", "T3"}
Drainers == {"W1", "W2"}

\* Uint8Array element: Atomics.add / Atomics.sub wrap modulo 2^8.
ByteWrap == 256

VARIABLES
    max,                  \* Mutex.max
    num,                  \* Mutex.num
    waitingLockers,       \* Mutex.waitingLockers: the queued doLock closures, by caller
    waitingAllResolvers,  \* Mutex.waitingAllResolvers: the queued waitAll resolvers, by caller
    len,                  \* AtomicLock.len[0]
    waitingResolvers,     \* AtomicLock.waitingResolvers: jobs parked behind the AtomicLock
    microtasks,           \* promise-job queue: the .then callbacks / await continuations
    pc,                   \* position of every client of the semaphore
    callSeq,              \* history: lockers in the order of their lock() calls
    admitSeq,             \* history: [who, by] in the order the lock() promises resolved
    drainedBy,            \* history: the operation that resolved each waitAll() promise
    config,               \* collectDiff: current configuration
    compareConfig,        \* collectDiff: former configuration, or Null
    rec,                  \* collectDiff: the returned record, or Null before the call
    diffPc,               \* collectDiff: "input" before the call, "done" after it
    options,              \* main: the parsed command line
    target,               \* the download target: path -> content of every file in it
    downloads,            \* tempDownloadDir: per mvType, path -> content of the staged files
    diff,                 \* main: {add, remove, modify, fix}, or Null before the fix pass
    counter,              \* main: counter.success / counter.failed of the download loop
    needMoveFiles,        \* main: the entries pushed for the batch relocation
    issued,               \* main: how many items of the iterator the loop has taken
    mainPc,               \* main: the statement it executes next
    run,                  \* "first" or "second" run of the program over the same target
    journal,              \* history: the bulk commands main has issued in this run
    exitCode,             \* process exit status, NoExit while running
    savedConfig,          \* the file at the --save / --compare path
    rootSynced,           \* history: a delete-extraneous transfer was issued against "/"
    firstRun,             \* history: what the first run left, Null during it
    call,                 \* the arguments of a call of a pure function, or Null
    result,               \* <<v>> once the call returned v, <<>> before
    procPc,               \* process life cycle: the step of main that runs next
    workDir,              \* process life cycle: the temporary working directory
    failed,               \* process life cycle: the external command that failed
    counts,               \* process life cycle: what countDiffFiles reported
    moved,                \* process life cycle: the types that have files to relocate
    compareFile,          \* process life cycle: what is at the compare path
    saved,                \* process life cycle: the configuration was written to --save
    buildConfig           \* the content of config.build.json, Null before it is written

mutexVars == <<max, num, waitingLockers, waitingAllResolvers, len, waitingResolvers,
               microtasks, pc, callSeq, admitSeq, drainedBy>>
diffVars == <<config, compareConfig, rec, diffPc>>
runVars == <<options, target, downloads, diff, counter, needMoveFiles, issued, mainPc,
             run, journal, exitCode, savedConfig, rootSynced, firstRun>>
auxVars == <<call, result, procPc, workDir, failed, counts, moved, compareFile, saved,
            buildConfig>>
vars == <<mutexVars, diffVars, runVars, auxVars>>

\* JavaScript null (no compare configuration; no record yet).
Null == [null |-> TRUE]

(***************************************************************************)
(* AtomicLock                                                              *)
(***************************************************************************)

\* AtomicLock.lock(), whose promise's continuation is `job`: returns the new
\* len, the new waitingResolvers and the jobs whose promise resolved (their
\* continuation enters the promise-job queue).
AtomicLockLock(l, wr, job) ==
    LET formerlen == l
        added == (l + 1) % ByteWrap
    IN  IF formerlen = 0
        THEN [len |-> (added + ByteWrap - 1) % ByteWrap, waitingResolvers |-> wr,
              resolved |-> <<job>>]
        ELSE [len |-> added, waitingResolvers |-> Append(wr, job), resolved |-> <<>>]

\* AtomicLock.unlock()
AtomicLockUnlock(l, wr) ==
    IF wr # <<>>
    THEN [len |-> (l + ByteWrap - 1) % ByteWrap, waitingResolvers |-> Tail(wr),
          resolved |-> <<Head(wr)>>]
    ELSE [len |-> l, waitingResolvers |-> wr, resolved |-> <<>>]

(***************************************************************************)
(* Mutex: the bodies that run once the AtomicLock promise has resolved.    *)
(* Each returns the new num and queues, the lockers whose lock() promise   *)
(* it resolved (admitted) and the waitAll callers it resolved (drained).   *)
(***************************************************************************)

\* Mutex.lock: the callback of atomicLock.lock().then(...)
MutexLockBadCmp(n, m, wl, wa, t) ==
    IF n <= m
    THEN [num |-> n + 1, waitingLockers |-> wl, waitingAllResolvers |-> wa,
          admitted |-> <<t>>, drained |-> {}]
    ELSE [num |-> n, waitingLockers |-> Append(wl, t), waitingAllResolvers |-> wa,
          admitted |-> <<>>, drained |-> {}]

\* A lock() that puts a caller it cannot admit at the head of the queue.
MutexLockAtHead(n, m, wl, wa, t) ==
    IF n < m
    THEN [num |-> n + 1, waitingLockers |-> wl, waitingAllResolvers |-> wa,
          admitted |-> <<t>>, drained |-> {}]
    ELSE [num |-> n, waitingLockers |-> <<t>> \o wl, waitingAllResolvers |-> wa,
          admitted |-> <<>>, drained |-> {}]

MutexLock(n, m, wl, wa, t) ==
    IF n < m
    THEN [num |-> n + 1, waitingLockers |-> wl, waitingAllResolvers |-> wa,
          admitted |-> <<t>>, drained |-> {}]
    ELSE [num |-> n, waitingLockers |-> Append(wl, t), waitingAllResolvers |-> wa,
          admitted |-> <<>>, drained |-> {}]

Max0(a, b) == IF a >= b THEN a ELSE b

SeqRange(s) == {s[i] : i \in 1 .. Len(s)}

MutexReleaseLifo(n, m, wl, wa) ==
    LET n1 == Max0(0, n - 1)
    IN  IF wl # <<>>
        THEN [num |-> n1 + 1, waitingLockers |-> SubSeq(wl, 1, Len(wl) - 1),
              waitingAllResolvers |-> wa, admitted |-> <<wl[Len(wl)]>>, drained |-> {}]
        ELSE IF wa = <<>> \/ n1 # 0
        THEN [num |-> n1, waitingLockers |-> wl,
              waitingAllResolvers |-> IF wa = <<>> THEN wa ELSE Tail(wa),
              admitted |-> <<>>, drained |-> {}]
        ELSE [num |-> n1, waitingLockers |-> wl, waitingAllResolvers |-> <<>>,
              admitted |-> <<>>, drained |-> SeqRange(wa)]

MutexReleaseNoZeroTest(n, m, wl, wa) ==
    LET n1 == Max0(0, n - 1)
    IN  IF wl # <<>>
        THEN [num |-> n1 + 1, waitingLockers |-> Tail(wl), waitingAllResolvers |-> wa,
              admitted |-> <<Head(wl)>>, drained |-> {}]
        ELSE [num |-> n1, waitingLockers |-> wl, waitingAllResolvers |-> <<>>,
              admitted |-> <<>>, drained |-> SeqRange(wa)]

\* A release that gives its slot back although a locker is queued.
MutexReleaseNoHandOff(n, m, wl, wa) ==
    [num |-> Max0(0, n - 1), waitingLockers |-> wl, waitingAllResolvers |-> wa,
     admitted |-> <<>>, drained |-> {}]

\* Mutex.release: the code after `await this.atomicLock.lock()`
MutexRelease(n, m, wl, wa) ==
    LET n1 == Max0(0, n - 1)
    IN  IF wl # <<>>
        THEN \* nextLocker(): doLock of the oldest waiter
             [num |-> n1 + 1, waitingLockers |-> Tail(wl), waitingAllResolvers |-> wa,
              admitted |-> <<Head(wl)>>, drained |-> {}]
        ELSE IF wa = <<>>
        THEN [num |-> n1, waitingLockers |-> wl, waitingAllResolvers |-> wa,
              admitted |-> <<>>, drained |-> {}]
        ELSE IF n1 = 0
        THEN \* the while loop resolves and shifts every queued resolver
             [num |-> n1, waitingLockers |-> wl, waitingAllResolvers |-> <<>>,
              admitted |-> <<>>, drained |-> SeqRange(wa)]
        ELSE \* the first resolver was shifted before the loop test failed
             [num |-> n1, waitingLockers |-> wl, waitingAllResolvers |-> Tail(wa),
              admitted |-> <<>>, drained |-> {}]

\* Mutex.waitAll: the callback of atomicLock.lock().then(...)
MutexWaitAll(n, m, wl, wa, d) ==
    IF n = 0
    THEN [num |-> n, waitingLockers |-> wl, waitingAllResolvers |-> wa,
          admitted |-> <<>>, drained |-> {d}]
    ELSE [num |-> n, waitingLockers |-> wl, waitingAllResolvers |-> Append(wa, d),
          admitted |-> <<>>, drained |-> {}]

(***************************************************************************)
(* The semaphore under arbitrary clients.                                  *)
(***************************************************************************)

Job(op, who) == [op |-> op, who |-> who]

\* The orchestrator's variables while no run of main is modelled.
NoRun ==
    /\ options = Null
    /\ target = <<>>
    /\ downloads = Null
    /\ diff = Null
    /\ counter = Null
    /\ needMoveFiles = {}
    /\ issued = 0
    /\ mainPc = "off"
    /\ run = "none"
    /\ journal = <<>>
    /\ exitCode = <<>>
    /\ savedConfig = Null
    /\ rootSynced = FALSE
    /\ firstRun = Null

\* No call of a pure function and no process life cycle is modelled.
NoAux ==
    /\ call = Null
    /\ result = <<>>
    /\ procPc = "off"
    /\ workDir = [made |-> FALSE, exists |-> FALSE, removals |-> 0]
    /\ failed = "none"
    /\ counts = Null
    /\ moved = {}
    /\ compareFile = "absent"
    /\ saved = FALSE
    /\ buildConfig = Null

Init ==
    /\ max \in 1 .. MaxCap
    /\ num = 0
    /\ waitingLockers = <<>>
    /\ waitingAllResolvers = <<>>
    /\ len = 0
    /\ waitingResolvers = <<>>
    /\ microtasks = <<>>
    /\ pc = [c \in Lockers \cup Drainers |-> "idle"]
    /\ callSeq = <<>>
    /\ admitSeq = <<>>
    /\ drainedBy = [d \in Drainers |-> "none"]
    /\ config = Null
    /\ compareConfig = Null
    /\ rec = Null
    /\ diffPc = "off"
    /\ NoRun
    /\ NoAux

\* A method was called: its atomicLock.lock() is taken synchronously.
Enter(job) ==
    LET a == AtomicLockLock(len, waitingResolvers, job)
    IN  /\ len' = a.len
        /\ waitingResolvers' = a.waitingResolvers
        /\ microtasks' = microtasks \o a.resolved

\* A locker calls mutex.lock().
CallLock(t) ==
    /\ pc[t] = "idle"
    /\ Len(callSeq) < MaxCalls
    /\ pc' = [pc EXCEPT ![t] = "locking"]
    /\ callSeq' = Append(callSeq, t)
    /\ Enter(Job("lock", t))
    /\ UNCHANGED <<max, num, waitingLockers, waitingAllResolvers, admitSeq, drainedBy, diffVars, runVars, auxVars>>

\* A holder calls mutex.release() (not awaited by the caller).
CallRelease(t) ==
    /\ pc[t] = "holding"
    /\ pc' = [pc EXCEPT ![t] = "idle"]
    /\ Enter(Job("release", t))
    /\ UNCHANGED <<max, num, waitingLockers, waitingAllResolvers, callSeq, admitSeq, drainedBy, diffVars, runVars, auxVars>>

\* A client calls mutex.waitAll().
CallWaitAll(d) ==
    /\ pc[d] = "idle"
    /\ pc' = [pc EXCEPT ![d] = "waiting"]
    /\ Enter(Job("waitAll", d))
    /\ UNCHANGED <<max, num, waitingLockers, waitingAllResolvers, callSeq, admitSeq, drainedBy, diffVars, runVars, auxVars>>

\* The effect of one critical section, followed by atomicLock.unlock().
Leave(r) ==
    LET u == AtomicLockUnlock(len, waitingResolvers)
    IN  /\ num' = r.num
        /\ waitingLockers' = r.waitingLockers
        /\ waitingAllResolvers' = r.waitingAllResolvers
        /\ admitSeq' = admitSeq \o [i \in 1 .. Len(r.admitted) |->
                                        [who |-> r.admitted[i], by |-> Head(microtasks).op]]
        /\ drainedBy' = [d \in Drainers |->
                           IF d \in r.drained THEN Head(microtasks).op ELSE drainedBy[d]]
        /\ pc' = [c \in Lockers \cup Drainers |->
                    IF c \in SeqRange(r.admitted) THEN "holding"
                    ELSE IF c \in r.drained THEN "drained"
                    ELSE pc[c]]
        /\ len' = u.len
        /\ waitingResolvers' = u.waitingResolvers
        /\ microtasks' = Tail(microtasks) \o u.resolved

\* The promise-job queue runs the callback of Mutex.lock.
RunLock ==
    /\ microtasks # <<>>
    /\ Head(microtasks).op = "lock"
    /\ Leave(MutexLock(num, max, waitingLockers, waitingAllResolvers, Head(microtasks).who))
    /\ UNCHANGED <<max, callSeq, diffVars, runVars, auxVars>>

\* The promise-job queue resumes Mutex.release after its await.
RunRelease ==
    /\ microtasks # <<>>
    /\ Head(microtasks).op = "release"
    /\ Leave(MutexRelease(num, max, waitingLockers, waitingAllResolvers))
    /\ UNCHANGED <<max, callSeq, diffVars, runVars, auxVars>>

\* The promise-job queue runs the callback of Mutex.waitAll.
RunWaitAll ==
    /\ microtasks # <<>>
    /\ Head(microtasks).op = "waitAll"
    /\ Leave(MutexWaitAll(num, max, waitingLockers, waitingAllResolvers, Head(microtasks).who))
    /\ UNCHANGED <<max, callSeq, diffVars, runVars, auxVars>>

Next ==
    \/ \E t \in Lockers : CallLock(t)
    \/ \E t \in Lockers : CallRelease(t)
    \/ \E d \in Drainers : CallWaitAll(d)
    \/ RunLock
    \/ RunRelease
    \/ RunWaitAll

Spec == Init /\ [][Next]_vars

(***************************************************************************)
(* Properties of the semaphore.                                            *)
(***************************************************************************)

\* The tasks whose lock() resolved and that have not called release() yet.
Holders == {t \in Lockers : pc[t] = "holding"}

\* waitAll() was called by d, its callback has run, and its promise is unresolved.
WaitAllPending(d) ==
    /\ pc[d] = "waiting"
    /\ \A i \in 1 .. Len(microtasks) : microtasks[i] # Job("waitAll", d)
    /\ \A i \in 1 .. Len(waitingResolvers) : waitingResolvers[i] # Job("waitAll", d)

IsPrefix(s, t) ==
    /\ Len(s) <= Len(t)
    /\ \A i \in 1 .. Len(s) : s[i] = t[i]

\* C1: the held count never exceeds max, the tasks holding a slot are never
\* more than max, and a lock() promise resolves only in a step that found the
\* count below max and incremented it, or in a release() step that hands its
\* slot over (count unchanged).
C1_Capacity ==
    /\ [](num <= max /\ Cardinality(Holders) <= num)
    /\ [][Len(admitSeq') > Len(admitSeq) =>
            \/ Head(microtasks).op = "lock" /\ num < max /\ num' = num + 1
            \/ Head(microtasks).op = "release" /\ num' = num /\ num <= max]_vars

\* C1 witness: capacity 2, both slots held at once and a third caller suspended.
C1_Witness ==
    /\ max = 2
    /\ Cardinality(Holders) = 2
    /\ num = max
    /\ Len(waitingLockers) = 1

\* C2: lock() promises resolve in exactly the order of the lock() calls: the
\* admission history is a prefix of the call history, so no later caller is
\* admitted while an earlier one still waits.
C2_Fifo ==
    IsPrefix([i \in 1 .. Len(admitSeq) |-> admitSeq[i].who], callSeq)

\* C2 witness: capacity 1, two suspended callers were admitted by hand-over
\* from release(), one after the other.
C2_Witness ==
    /\ max = 1
    /\ Len(admitSeq) >= 3
    /\ admitSeq[2].by = "release"
    /\ admitSeq[3].by = "release"
    /\ admitSeq[2].who # admitSeq[3].who

\* C3: once the held count is zero no waitAll() caller is left pending.
C3_WaitAllResolvesAtZero ==
    \A d \in Drainers : WaitAllPending(d) => num # 0

\* C4: a waitAll() promise resolves only in a step after which the held
\* count is 0, no task holds a slot and no locker is queued.
C4_WaitAllSafety ==
    [][\A d \in Drainers :
          (pc[d] # "drained" /\ pc'[d] = "drained") =>
              (num' = 0 /\ Holders' = {} /\ waitingLockers' = <<>>)]_vars

\* C4 witness: a waitAll() that had to wait was resolved by the last release()
\* after three tasks had shared the semaphore.
C4_Witness ==
    /\ \E d \in Drainers : pc[d] = "drained" /\ drainedBy[d] = "release"
    /\ Len(admitSeq) >= 3
    /\ num = 0

(***************************************************************************)
(* collectDiff.  Strings that the code inspects character by character     *)
(* (names, tags, filenames) are sequences of one-character strings; URLs   *)
(* and digests are only compared, and are plain strings ("" is the empty   *)
(* URL).  A JavaScript object used as a map is a function whose domain is  *)
(* its set of keys.                                                        *)
(***************************************************************************)

\* [a-zA-Z0-9._-]
AllowedChars ==
    {"a", "b", "c", "d", "e", "f", "g", "h", "i", "j", "k", "l", "m",
     "n", "o", "p", "q", "r", "s", "t", "u", "v", "w", "x", "y", "z",
     "A", "B", "C", "D", "E", "F", "G", "H", "I", "J", "K", "L", "M",
     "N", "O", "P", "Q", "R", "S", "T", "U", "V", "W", "X", "Y", "Z",
     "0", "1", "2", "3", "4", "5", "6", "7", "8", "9", ".", "_", "-"}

\* .replace(/[^a-zA-Z0-9._-]/g, "_")
Sanitize(s) == [i \in 1 .. Len(s) |-> IF s[i] \in AllowedChars THEN s[i] ELSE "_"]

\* .replace(/\{\}/g, release.tag.name); the placeholder is the element "{}"
ReplaceBraces(tmpl, tagName) ==
    LET f[i \in 0 .. Len(tmpl)] ==
            IF i = 0 THEN <<>>
            ELSE f[i - 1] \o (IF tmpl[i] = "{}" THEN tagName ELSE <<tmpl[i]>>)
    IN  f[Len(tmpl)]

\* extMap
extMap(archiveProp) ==
    IF archiveProp = "zip_url" THEN <<"z", "i", "p">> ELSE <<"t", "a", "r", ".", "g", "z">>

\* `${config.name}-{}.${ext}`
FnTmpl(cfgName, ext) == cfgName \o <<"-", "{}", ".">> \o ext

genArchiveCtx(release, url, fnTmpl) ==
    [tag |-> release.tag, name |-> Sanitize(ReplaceBraces(fnTmpl, release.tag)), url |-> url]

\* `archive/${ctx.name}`
ArchivePath(name) == <<"a", "r", "c", "h", "i", "v", "e", "/">> \o name

\* JavaScript truthiness of a URL string
Truthy(url) == url # ""

EmptyObj == [k \in {} |-> <<>>]
HasKey(o, k) == k \in DOMAIN o

\* ---------------------------------------------------------------------
\* render and the contexts it is given
\* ---------------------------------------------------------------------

\* [a-zA-Z0-9_]
WordChars == AllowedChars \ {".", "-"}

\* The index of the "}" that closes a match of /\{([a-zA-Z0-9_]+)\}/ starting
\* at index i, or 0 if no match starts at i.
MatchEnd(tmpl, i) ==
    IF tmpl[i] # "{" THEN 0
    ELSE LET stops == {j \in (i + 1) .. Len(tmpl) : tmpl[j] \notin WordChars}
         IN  IF stops = {} THEN 0
             ELSE LET j == CHOOSE k \in stops : \A m \in stops : k <= m
                  IN  IF j > i + 1 /\ tmpl[j] = "}" THEN j ELSE 0

\* String.prototype.replace with a global pattern and a callback: the
\* matches are found from left to right in tmpl itself, what the callback
\* returns is copied to the output and never scanned.
RECURSIVE Replace(_, _, _)
Replace(tmpl, ctx, i) ==
    IF i > Len(tmpl) THEN <<>>
    ELSE LET j == MatchEnd(tmpl, i)
         IN  IF j = 0 THEN <<tmpl[i]>> \o Replace(tmpl, ctx, i + 1)
             ELSE LET p1 == SubSeq(tmpl, i + 1, j - 1)
                  IN  (IF HasKey(ctx, p1) THEN ctx[p1] ELSE SubSeq(tmpl, i, j))
                          \o Replace(tmpl, ctx, j + 1)

\* A render that expands its own output once more.
renderTwice(tmpl, ctx) == Replace(Replace(tmpl, ctx, 1), ctx, 1)

render(tmpl, ctx) == Replace(tmpl, ctx, 1)

\* UrlTemplateContext as genCtx and genArchiveCtx build it.
UrlTemplateContext(tag, name, release, url) ==
    (<<"t", "a", "g">> :> tag) @@ (<<"n", "a", "m", "e">> :> name)
        @@ (<<"r", "e", "l", "e", "a", "s", "e">> :> release)
        @@ (<<"u", "r", "l">> :> url)

Braced(key) == <<"{">> \o key \o <<"}">>

\* The JavaScript string that a sequence of characters spells.
RECURSIVE Text(_)
Text(chars) == IF chars = <<>> THEN "" ELSE Head(chars) \o Text(Tail(chars))

\* genCtx; the releases of this universe are named after their tag.
genCtx(release, asset) ==
    UrlTemplateContext(release.tag, asset.name, release.tag, asset.download_url)

\* genArchiveCtx as syncFrontEnd uses it, with all four keys.
ArchiveCtx(release, url, fnTmpl) ==
    LET c == genArchiveCtx(release, url, fnTmpl)
    IN  UrlTemplateContext(c.tag, c.name, release.tag, c.url)

\* configBuild after the loop of syncFrontEnd over its releases.
ApplyTemplate(cfg, tmpl) ==
    [cfg EXCEPT !.releases =
        [i \in 1 .. Len(cfg.releases) |->
            LET release == cfg.releases[i]
            IN  [release EXCEPT
                    !.assets = [j \in 1 .. Len(release.assets) |->
                        [release.assets[j] EXCEPT !.download_url =
                            Text(render(tmpl, genCtx(release, release.assets[j])))]],
                    !.tar_url =
                        IF Truthy(release.tar_url)
                        THEN Text(render(tmpl, ArchiveCtx(release, release.tar_url,
                                               FnTmpl(cfg.name, extMap("tar_url")))))
                        ELSE release.tar_url,
                    !.zip_url =
                        IF Truthy(release.zip_url)
                        THEN Text(render(tmpl, ArchiveCtx(release, release.zip_url,
                                               FnTmpl(cfg.name, extMap("zip_url")))))
                        ELSE release.zip_url]]]

\* What syncFrontEnd writes to config.build.json.
BuildConfig(cfg, tmpl) == IF tmpl # <<>> THEN ApplyTemplate(cfg, tmpl) ELSE cfg

NewRecordItem(downloadUrl, filename) == [downloadUrl |-> downloadUrl, filename |-> filename]

\* RemoveRecord values: "*" or a list of filenames
Star == [star |-> TRUE, files |-> <<>>]
Files(list) == [star |-> FALSE, files |-> list]

\* o[k] = v
Put(o, k, v) == [x \in DOMAIN o \cup {k} |-> IF x = k THEN v ELSE o[x]]
\* if (!o[k]) o[k] = []; o[k].push(item)
Push(o, k, item) == Put(o, k, IF HasKey(o, k) THEN Append(o[k], item) ELSE <<item>>)

\* Map built by set() over a list: has() and get() by key (the last entry wins)
MapHas(list, key, k) == \E i \in 1 .. Len(list) : list[i][key] = k
MapGet(list, key, k) ==
    list[CHOOSE i \in 1 .. Len(list) :
            /\ list[i][key] = k
            /\ \A j \in (i + 1) .. Len(list) : list[j][key] # k]

\* The asset comparison of an existing asset (sync.ts `same`)
SameNoDigest(a, formerAsset) ==
    /\ a.name = formerAsset.name
    /\ a.download_url = formerAsset.download_url
    /\ a.size = formerAsset.size

Same(a, formerAsset) ==
    /\ a.name = formerAsset.name
    /\ a.download_url = formerAsset.download_url
    /\ a.size = formerAsset.size
    /\ a.digest = formerAsset.digest

\* collectDiff, branch "new release"
NewRelease(r, cfg, release) ==
    LET assetRec == [i \in 1 .. Len(release.assets) |->
                        NewRecordItem(release.assets[i].download_url, release.assets[i].name)]
        tarCtx == genArchiveCtx(release, release.tar_url, FnTmpl(cfg.name, extMap("tar_url")))
        withTar == IF Truthy(release.tar_url)
                   THEN Append(assetRec, NewRecordItem(release.tar_url, tarCtx.name))
                   ELSE assetRec
        zipCtx == genArchiveCtx(release, release.zip_url, FnTmpl(cfg.name, extMap("zip_url")))
        addRec == IF Truthy(release.zip_url)
                  THEN Append(withTar, NewRecordItem(release.zip_url, zipCtx.name))
                  ELSE withTar
    IN  IF Len(addRec) > 0 THEN [r EXCEPT !.add = Put(@, release.tag, addRec)] ELSE r

DiffAssetDropsSame(r, release, formerRelease, a) ==
    IF ~MapHas(formerRelease.assets, "name", a.name)
    THEN [r EXCEPT !.add = Push(@, release.tag, NewRecordItem(a.download_url, a.name))]
    ELSE IF ~Same(a, MapGet(formerRelease.assets, "name", a.name))
    THEN [r EXCEPT !.modify = Push(@, release.tag, NewRecordItem(a.download_url, a.name))]
    ELSE r

\* collectDiff, existing release: one asset of the current release
DiffAsset(r, release, formerRelease, a) ==
    IF ~MapHas(formerRelease.assets, "name", a.name)
    THEN [r EXCEPT !.add = Push(@, release.tag, NewRecordItem(a.download_url, a.name))]
    ELSE IF ~Same(a, MapGet(formerRelease.assets, "name", a.name))
    THEN [r EXCEPT !.modify = Push(@, release.tag, NewRecordItem(a.download_url, a.name))]
    ELSE [r EXCEPT !.passedModify = Push(@, release.tag, NewRecordItem(a.download_url, a.name))]

\* collectDiff, existing release: one source archive slot
DiffArchive(r, cfg, release, formerRelease, archiveProp) ==
    LET ctx == genArchiveCtx(release, release[archiveProp], FnTmpl(cfg.name, extMap(archiveProp)))
        o == NewRecordItem(release[archiveProp], ArchivePath(ctx.name))
        cur == release[archiveProp]
        former == formerRelease[archiveProp]
    IN  IF cur # former
        THEN IF Truthy(cur) /\ ~Truthy(former)
             THEN [r EXCEPT !.modify = Push(@, release.tag, o)]
             ELSE IF ~Truthy(cur) /\ Truthy(former)
             THEN LET arr == IF HasKey(r.remove, release.tag)
                             THEN r.remove[release.tag] ELSE Files(<<>>)
                  IN  [r EXCEPT !.remove =
                          Put(@, release.tag,
                              IF arr.star THEN arr ELSE Files(Append(arr.files, ctx.name)))]
             ELSE [r EXCEPT !.add = Push(@, release.tag, o)]
        ELSE IF Truthy(cur) /\ Truthy(former)
        THEN [r EXCEPT !.passedModify = Push(@, release.tag, o)]
        ELSE r

ExistingReleaseStarOnDrop(r, cfg, release, formerRelease) ==
    LET removedAssets == SelectSeq(formerRelease.assets,
                                   LAMBDA a : ~MapHas(release.assets, "name", a.name))
        r1 == IF Len(removedAssets) > 0
              THEN [r EXCEPT !.remove = Put(@, release.tag, Star)]
              ELSE r
        f[i \in 0 .. Len(release.assets)] ==
            IF i = 0 THEN r1 ELSE DiffAsset(f[i - 1], release, formerRelease, release.assets[i])
        r2 == f[Len(release.assets)]
        r3 == DiffArchive(r2, cfg, release, formerRelease, "zip_url")
    IN  DiffArchive(r3, cfg, release, formerRelease, "tar_url")

\* collectDiff, branch "modify release"
ExistingRelease(r, cfg, release, formerRelease) ==
    LET removedAssets == SelectSeq(formerRelease.assets,
                                   LAMBDA a : ~MapHas(release.assets, "name", a.name))
        r1 == IF Len(removedAssets) > 0
              THEN [r EXCEPT !.remove =
                      Put(@, release.tag,
                          Files([i \in 1 .. Len(removedAssets) |-> removedAssets[i].name]))]
              ELSE r
        f[i \in 0 .. Len(release.assets)] ==
            IF i = 0 THEN r1 ELSE DiffAsset(f[i - 1], release, formerRelease, release.assets[i])
        r2 == f[Len(release.assets)]
        r3 == DiffArchive(r2, cfg, release, formerRelease, "zip_url")
    IN  DiffArchive(r3, cfg, release, formerRelease, "tar_url")

\* collectDiff, branch without a compare configuration: one release
NoCompareRelease(r, cfg, release) ==
    LET assetRec == [i \in 1 .. Len(release.assets) |->
                        NewRecordItem(release.assets[i].download_url, release.assets[i].name)]
        zipCtx == genArchiveCtx(release, release.zip_url, FnTmpl(cfg.name, extMap("zip_url")))
        tarCtx == genArchiveCtx(release, release.tar_url, FnTmpl(cfg.name, extMap("tar_url")))
    IN  [r EXCEPT !.add =
            Put(@, release.tag,
                assetRec \o <<NewRecordItem(release.zip_url, ArchivePath(zipCtx.name)),
                              NewRecordItem(release.tar_url, ArchivePath(tarCtx.name))>>)]

EmptyRec == [add |-> EmptyObj, remove |-> EmptyObj, modify |-> EmptyObj,
             passedModify |-> EmptyObj]

collectDiff(cfg, cmp) ==
    IF cmp # Null
    THEN LET removedReleases == SelectSeq(cmp.releases,
                                          LAMBDA x : ~MapHas(cfg.releases, "tag", x.tag))
             g[i \in 0 .. Len(removedReleases)] ==
                 IF i = 0 THEN EmptyRec
                 ELSE [g[i - 1] EXCEPT !.remove = Put(@, removedReleases[i].tag, Star)]
             f[i \in 0 .. Len(cfg.releases)] ==
                 IF i = 0 THEN g[Len(removedReleases)]
                 ELSE LET release == cfg.releases[i]
                      IN  IF ~MapHas(cmp.releases, "tag", release.tag)
                          THEN NewRelease(f[i - 1], cfg, release)
                          ELSE ExistingRelease(f[i - 1], cfg, release,
                                               MapGet(cmp.releases, "tag", release.tag))
         IN  f[Len(cfg.releases)]
    ELSE LET f[i \in 0 .. Len(cfg.releases)] ==
                 IF i = 0 THEN EmptyRec ELSE NoCompareRelease(f[i - 1], cfg, cfg.releases[i])
         IN  f[Len(cfg.releases)]

(***************************************************************************)
(* The configurations collectDiff is applied to.                           *)
(***************************************************************************)

RepoName == <<"w">>
Tag1 == <<"v", "1">>
Tag2 == <<"v", "+", "2">>
AssetA == <<"a">>
AssetB == <<"b">>

Asset(name, url, size, digest) ==
    [name |-> name, download_url |-> url, size |-> size, digest |-> digest]

BaseAsset(name) == Asset(name, "https://dl/1", 10, "sha256:1")

\* An asset as first published, or with one of its compared fields changed.
AssetVersions(name) ==
    {BaseAsset(name),
     Asset(name, "https://dl/2", 10, "sha256:1"),
     Asset(name, "https://dl/1", 20, "sha256:1"),
     Asset(name, "https://dl/1", 10, "sha256:2")}

Release(tag, assets, zip, tar) ==
    [tag |-> tag, assets |-> assets, zip_url |-> zip, tar_url |-> tar]

AssetLists(A, B) ==
    {<<>>} \cup {<<a>> : a \in A} \cup {<<b>> : b \in B}
           \cup {<<a, b>> : a \in A, b \in B}

\* The releases of the freshly generated configuration under tag.
Releases(tag) ==
    {Release(tag, as, zip, tar) :
        as \in AssetLists(AssetVersions(AssetA), AssetVersions(AssetB)),
        zip \in {"", "https://zip/1", "https://zip/2"},
        tar \in {"", "https://tar/1", "https://tar/2"}}

\* The releases of a formerly saved configuration under tag.
FormerReleases(tag) ==
    {Release(tag, as, zip, tar) :
        as \in AssetLists({BaseAsset(AssetA)}, {BaseAsset(AssetB)}),
        zip \in {"", "https://zip/1"},
        tar \in {"", "https://tar/1"}}

\* A second release, next to the first: at most one asset and a zip archive.
PlainReleases(tag) ==
    {Release(tag, as, zip, "") :
        as \in {<<>>, <<BaseAsset(AssetB)>>},
        zip \in {"", "https://zip/1"}}

ConfigOf(releases) == [name |-> RepoName, releases |-> releases]

ConfigsOf(First, Second) ==
    {ConfigOf(<<>>)} \cup {ConfigOf(<<x>>) : x \in First \cup Second}
                     \cup {ConfigOf(<<x, y>>) : x \in First, y \in Second}

Configs == ConfigsOf(Releases(Tag1), PlainReleases(Tag2))
FormerConfigs == ConfigsOf(FormerReleases(Tag1), PlainReleases(Tag2))

DiffInit ==
    /\ max = 1
    /\ num = 0
    /\ waitingLockers = <<>>
    /\ waitingAllResolvers = <<>>
    /\ len = 0
    /\ waitingResolvers = <<>>
    /\ microtasks = <<>>
    /\ pc = [c \in Lockers \cup Drainers |-> "idle"]
    /\ callSeq = <<>>
    /\ admitSeq = <<>>
    /\ drainedBy = [d \in Drainers |-> "none"]
    /\ config \in Configs
    /\ compareConfig \in FormerConfigs \cup {Null, config}
    /\ rec = Null
    /\ diffPc = "input"
    /\ NoRun
    /\ NoAux

\* rawDiff = await collectDiff(config, compareConfig)
CollectDiff ==
    /\ diffPc = "input"
    /\ rec' = collectDiff(config, compareConfig)
    /\ diffPc' = "done"
    /\ UNCHANGED <<config, compareConfig, mutexVars, runVars, auxVars>>

DiffNext == CollectDiff

DiffSpec == DiffInit /\ [][DiffNext]_vars

(***************************************************************************)
(* Properties of collectDiff.                                              *)
(***************************************************************************)

Done == diffPc = "done"

ArchiveProps == {"zip_url", "tar_url"}

Tags(cfg) == {cfg.releases[i].tag : i \in 1 .. Len(cfg.releases)}

Names(assets) == [i \in 1 .. Len(assets) |-> assets[i].name]

\* The list recorded under tag in one of the records, empty without the key.
ListOf(o, tag) == IF HasKey(o, tag) THEN o[tag] ELSE <<>>

\* How many entries of a list are x / carry the filename fn.
Count(list, x) == Cardinality({i \in 1 .. Len(list) : list[i] = x})
CountName(list, fn) == Cardinality({i \in 1 .. Len(list) : list[i].filename = fn})

AssetItem(a) == NewRecordItem(a.download_url, a.name)

\* The synthetic filename of an archive slot: "{repoName}-{tagName}.{ext}" sanitized.
SyntheticName(cfg, release, archiveProp) ==
    Sanitize(cfg.name \o <<"-">> \o release.tag \o <<".">> \o extMap(archiveProp))

ArchiveItem(cfg, release, archiveProp) ==
    NewRecordItem(release[archiveProp], ArchivePath(SyntheticName(cfg, release, archiveProp)))

HasArchivePrefix(fn) ==
    /\ Len(fn) > Len(ArchivePath(<<>>))
    /\ SubSeq(fn, 1, Len(ArchivePath(<<>>))) = ArchivePath(<<>>)

\* The items the current snapshot claims for a release: its assets and its
\* non-empty archive slots.
ExpectedItems(cfg, release) ==
    {AssetItem(release.assets[i]) : i \in 1 .. Len(release.assets)}
        \cup {ArchiveItem(cfg, release, p) : p \in {q \in ArchiveProps : Truthy(release[q])}}

\* C5: without a compare configuration, add holds exactly the assets and the
\* non-empty archive slots of every release, each once, and remove, modify
\* and passedModify are empty.
C5_NoCompareAddsPresentOnly ==
    (Done /\ compareConfig = Null) =>
        /\ DOMAIN rec.remove = {}
        /\ DOMAIN rec.modify = {}
        /\ DOMAIN rec.passedModify = {}
        /\ DOMAIN rec.add \subseteq Tags(config)
        /\ \A i \in 1 .. Len(config.releases) :
              LET release == config.releases[i]
                  list == ListOf(rec.add, release.tag)
              IN  /\ SeqRange(list) = ExpectedItems(config, release)
                  /\ Len(list) = Cardinality(ExpectedItems(config, release))

\* C6: a configuration compared with itself gives empty add, remove and
\* modify, and passedModify holds every asset and every non-empty archive
\* slot of every release.
C6_SelfDiff ==
    (Done /\ compareConfig = config) =>
        /\ DOMAIN rec.add = {}
        /\ DOMAIN rec.remove = {}
        /\ DOMAIN rec.modify = {}
        /\ \A i \in 1 .. Len(config.releases) :
              LET release == config.releases[i]
              IN  ExpectedItems(config, release)
                      \subseteq SeqRange(ListOf(rec.passedModify, release.tag))

\* C6 witness: a self-diff of two releases with assets, a present and an
\* absent archive slot.
C6_Witness ==
    /\ Done
    /\ compareConfig = config
    /\ Len(config.releases) = 2
    /\ Len(config.releases[1].assets) = 2
    /\ Truthy(config.releases[1].zip_url)
    /\ ~Truthy(config.releases[1].tar_url)
    /\ Len(rec.passedModify[Tag1]) = 3

\* The names of the former release's assets that the current release lacks.
DroppedNames(release, formerRelease) ==
    Names(SelectSeq(formerRelease.assets, LAMBDA a : ~MapHas(release.assets, "name", a.name)))

\* The archive slots whose URL went from non-empty to empty.
DroppedSlots(release, formerRelease) ==
    {p \in ArchiveProps : Truthy(formerRelease[p]) /\ ~Truthy(release[p])}

\* C7 as claimed: remove[tag] is "*" for a tag of compare absent from current;
\* for a tag in both it is the list of exactly the dropped asset names, and
\* the key is absent when no asset was dropped.
C7_RemoveListsDroppedAssetsOnly ==
    (Done /\ compareConfig # Null) =>
        \A tag \in Tags(compareConfig) :
            IF tag \notin Tags(config)
            THEN HasKey(rec.remove, tag) /\ rec.remove[tag] = Star
            ELSE LET dropped == DroppedNames(MapGet(config.releases, "tag", tag),
                                             MapGet(compareConfig.releases, "tag", tag))
                 IN  IF dropped = <<>>
                     THEN ~HasKey(rec.remove, tag)
                     ELSE HasKey(rec.remove, tag) /\ rec.remove[tag] = Files(dropped)

\* C7 amended: remove[tag] is "*" for a tag of compare absent from current;
\* for a tag in both it is never "*": it lists the dropped asset names, in the
\* former order, followed by one entry per archive slot whose URL went from
\* non-empty to empty, and the key is absent when neither was dropped.
C7_RemoveWholeOrPartial ==
    (Done /\ compareConfig # Null) =>
        \A tag \in Tags(compareConfig) :
            IF tag \notin Tags(config)
            THEN HasKey(rec.remove, tag) /\ rec.remove[tag] = Star
            ELSE LET release == MapGet(config.releases, "tag", tag)
                     formerRelease == MapGet(compareConfig.releases, "tag", tag)
                     dropped == DroppedNames(release, formerRelease)
                     slots == Cardinality(DroppedSlots(release, formerRelease))
                 IN  IF dropped = <<>> /\ slots = 0
                     THEN ~HasKey(rec.remove, tag)
                     ELSE /\ HasKey(rec.remove, tag)
                          /\ ~rec.remove[tag].star
                          /\ Len(rec.remove[tag].files) = Len(dropped) + slots
                          /\ SubSeq(rec.remove[tag].files, 1, Len(dropped)) = dropped

\* C7 witness: one tag disappeared, and the other lost an asset and an
\* archive slot while keeping another asset.
C7_Witness ==
    /\ Done
    /\ compareConfig # Null
    /\ Tags(compareConfig) = {Tag1, Tag2}
    /\ Tags(config) = {Tag1}
    /\ DOMAIN rec.remove = {Tag1, Tag2}
    /\ rec.remove[Tag2] = Star
    /\ Names(config.releases[1].assets) = <<AssetA>>
    /\ Len(rec.remove[Tag1].files) = 2
    /\ rec.remove[Tag1].files[1] = AssetB

\* C8: for a tag present in both snapshots every asset of the current release
\* is recorded exactly once, with the current download_url, in add when the
\* former release has no asset of that name, in modify when download_url,
\* size or digest differs, in passedModify when all are equal, and its name
\* appears in neither of the other two lists.
C8_AssetClassification ==
    (Done /\ compareConfig # Null) =>
        \A i \in 1 .. Len(config.releases) :
            LET release == config.releases[i]
                tag == release.tag
            IN  tag \in Tags(compareConfig) =>
                  LET formerRelease == MapGet(compareConfig.releases, "tag", tag)
                  IN  \A j \in 1 .. Len(release.assets) :
                        LET a == release.assets[j]
                            isNew == ~MapHas(formerRelease.assets, "name", a.name)
                            formerAsset == MapGet(formerRelease.assets, "name", a.name)
                            changed == \/ a.download_url # formerAsset.download_url
                                       \/ a.size # formerAsset.size
                                       \/ a.digest # formerAsset.digest
                            where == IF isNew THEN "add"
                                     ELSE IF changed THEN "modify" ELSE "passedModify"
                        IN  \A kind \in {"add", "modify", "passedModify"} :
                              IF kind = where
                              THEN /\ Count(ListOf(rec[kind], tag), AssetItem(a)) = 1
                                   /\ CountName(ListOf(rec[kind], tag), a.name) = 1
                              ELSE CountName(ListOf(rec[kind], tag), a.name) = 0

\* C8 witness: the end-to-end scenario: asset a of the first tag changed its
\* digest, and the second tag with asset b is new.
C8_Witness ==
    /\ Done
    /\ compareConfig = ConfigOf(<<Release(Tag1, <<BaseAsset(AssetA)>>, "", "")>>)
    /\ config = ConfigOf(<<Release(Tag1, <<Asset(AssetA, "https://dl/1", 10, "sha256:2")>>, "", ""),
                           Release(Tag2, <<BaseAsset(AssetB)>>, "", "")>>)
    /\ DOMAIN rec.modify = {Tag1}
    /\ rec.modify[Tag1] = <<NewRecordItem("https://dl/1", AssetA)>>
    /\ DOMAIN rec.add = {Tag2}
    /\ rec.add[Tag2] = <<NewRecordItem("https://dl/1", AssetB)>>
    /\ DOMAIN rec.remove = {}

\* C9: for a tag present in both snapshots and each archive slot: URL newly
\* present gives exactly one add entry archive/{name}-{tag}.{ext}; URL newly
\* absent gives exactly one remove entry with that filename and no "*"; URL
\* changed gives one modify entry; URL unchanged and non-empty gives one
\* passedModify entry.
C9_ArchiveSlotClassification ==
    (Done /\ compareConfig # Null) =>
        \A i \in 1 .. Len(config.releases) :
            LET release == config.releases[i]
                tag == release.tag
            IN  tag \in Tags(compareConfig) =>
                  LET formerRelease == MapGet(compareConfig.releases, "tag", tag)
                  IN  \A p \in ArchiveProps :
                        LET cur == release[p]
                            former == formerRelease[p]
                            item == ArchiveItem(config, release, p)
                        IN  /\ (Truthy(cur) /\ ~Truthy(former)) =>
                                Count(ListOf(rec.add, tag), item) = 1
                            /\ (~Truthy(cur) /\ Truthy(former)) =>
                                /\ HasKey(rec.remove, tag)
                                /\ ~rec.remove[tag].star
                                /\ Count(rec.remove[tag].files, item.filename) = 1
                            /\ (Truthy(cur) /\ Truthy(former) /\ cur # former) =>
                                Count(ListOf(rec.modify, tag), item) = 1
                            /\ (Truthy(cur) /\ cur = former) =>
                                Count(ListOf(rec.passedModify, tag), item) = 1

\* C10: every entry of add, modify, passedModify and remove that stands for
\* an archive slot carries a filename under archive/.
C10_ArchivePathInvariant ==
    Done =>
        /\ \A kind \in {"add", "modify", "passedModify"} :
              \A tag \in DOMAIN rec[kind] :
                  \A k \in 1 .. Len(rec[kind][tag]) :
                      LET item == rec[kind][tag][k]
                          release == MapGet(config.releases, "tag", tag)
                      IN  item.filename \notin SeqRange(Names(release.assets)) =>
                              HasArchivePrefix(item.filename)
        /\ \A tag \in DOMAIN rec.remove :
              \A k \in 1 .. Len(rec.remove[tag].files) :
                  LET fn == rec.remove[tag].files[k]
                      formerRelease == MapGet(compareConfig.releases, "tag", tag)
                  IN  fn \notin SeqRange(Names(formerRelease.assets)) => HasArchivePrefix(fn)

(***************************************************************************)
(* main, the orchestrator of one run.  The download target is a map from   *)
(* the path of a file (relative to the target directory) to its content.   *)
(* A content is compared only: the digest of an asset, the URL of an       *)
(* archive, Empty for a zero-length file, Partial for what a failed        *)
(* download left behind.                                                   *)
(***************************************************************************)

Empty == "empty"
Partial == "partial"

\* path.join(tag, item.filename)
PathJoin(tag, filename) == tag \o <<"/">> \o filename

\* The tags in the order of config.releases: the order in which collectDiff
\* and the fix pass create the keys of add, modify, passedModify and fix.
TagSeq(cfg) == [i \in 1 .. Len(cfg.releases) |-> cfg.releases[i].tag]

\* Object.entries(o), flattened to {tag, item} pairs.
RECURSIVE EntriesIn(_, _)
EntriesIn(o, tags) ==
    IF tags = <<>> THEN <<>>
    ELSE LET tag == Head(tags)
             here == IF HasKey(o, tag)
                     THEN [i \in 1 .. Len(o[tag]) |-> [tag |-> tag, item |-> o[tag][i]]]
                     ELSE <<>>
         IN  here \o EntriesIn(o, Tail(tags))

\* ignoredFiles: path.join(tag, item.filename) of every add and modify item
ignoredFiles(rawDiff) ==
    UNION {{PathJoin(tag, rawDiff.add[tag][i].filename) : i \in 1 .. Len(rawDiff.add[tag])} :
              tag \in DOMAIN rawDiff.add}
      \cup
    UNION {{PathJoin(tag, rawDiff.modify[tag][i].filename) : i \in 1 .. Len(rawDiff.modify[tag])} :
              tag \in DOMAIN rawDiff.modify}

\* rsync --dry-run --existing --out-format="%n" emptyPath filePath: prints a
\* name exactly when filePath exists in the target.
remoteExists(tgt, filePath) == filePath \in DOMAIN tgt

\* A fix pass that schedules every unchanged item, whatever the target holds.
FixPassNoProbe(rawDiff, opts, tgt) ==
    LET ignored == ignoredFiles(rawDiff)
        missing(tag) == SelectSeq(rawDiff.passedModify[tag],
                            LAMBDA item : PathJoin(tag, item.filename) \notin ignored)
    IN  [tag \in {t \in DOMAIN rawDiff.passedModify : missing(t) # <<>>} |-> missing(tag)]

\* diff.fix after the fix pass
FixPass(rawDiff, opts, tgt) ==
    IF ~opts.downloadTarget THEN EmptyObj
    ELSE LET ignored == ignoredFiles(rawDiff)
             missing(tag) == SelectSeq(rawDiff.passedModify[tag],
                                 LAMBDA item : /\ ~remoteExists(tgt, PathJoin(tag, item.filename))
                                               /\ PathJoin(tag, item.filename) \notin ignored)
         IN  [tag \in {t \in DOMAIN rawDiff.passedModify : missing(t) # <<>>} |-> missing(tag)]

RECURSIVE Sum(_, _)
Sum(f, S) ==
    IF S = {} THEN 0
    ELSE LET x == CHOOSE y \in S : TRUE IN f[x] + Sum(f, S \ {x})

\* for (const v of Object.values(o)) count += v.length
CountItems(o) == Sum([tag \in DOMAIN o |-> Len(o[tag])], DOMAIN o)

\* Object.keys(diff.remove).find((k) => diff.remove[k] === v) for v === "*":
\* the first key that holds "*"; the "*" keys are created in the order of
\* compareConfig.releases.
FirstStarRelease(remove, cmp) ==
    LET stars == {i \in 1 .. Len(cmp.releases) :
                     /\ HasKey(remove, cmp.releases[i].tag)
                     /\ remove[cmp.releases[i].tag].star}
    IN  cmp.releases[CHOOSE i \in stars : \A j \in stars : i <= j]

countDiffFiles(d, cmp) ==
    LET removed(tag) ==
            IF d.remove[tag].star
            THEN IF cmp # Null THEN Len(FirstStarRelease(d.remove, cmp).assets) ELSE 0
            ELSE Len(d.remove[tag].files)
    IN  [add |-> CountItems(d.add),
         remove |-> Sum([tag \in DOMAIN d.remove |-> removed(tag)], DOMAIN d.remove),
         modify |-> CountItems(d.modify),
         fix |-> CountItems(d.fix)]

\* needSync that forgets the fix count.
needSyncNoFix(c) == ~(c.add = 0 /\ c.remove = 0 /\ c.modify = 0)

needSync(c) == ~(c.add = 0 /\ c.remove = 0 /\ c.modify = 0 /\ c.fix = 0)

\* The download loop's iterator: fix, then add, then modify.
iterator(d, cfg) ==
    LET typed(o, mvType) ==
            LET e == EntriesIn(o, TagSeq(cfg))
            IN  [i \in 1 .. Len(e) |-> [tag |-> e[i].tag, item |-> e[i].item, mvType |-> mvType]]
    IN  typed(d.fix, "fix") \o typed(d.add, "add") \o typed(d.modify, "modify")

\* A mirror that holds the assets only.
MirrorWithoutArchives(cfg) ==
    UNION {{PathJoin(cfg.releases[i].tag, cfg.releases[i].assets[j].name) :
               j \in 1 .. Len(cfg.releases[i].assets)} : i \in 1 .. Len(cfg.releases)}

\* createLocalEmptyDownloadTarget: the paths of the (empty) files it creates
createLocalEmptyDownloadTarget(cfg) ==
    UNION {LET release == cfg.releases[i]
           IN  {PathJoin(release.tag, release.assets[j].name) : j \in 1 .. Len(release.assets)}
                 \cup
               {PathJoin(release.tag,
                         ArchivePath(genArchiveCtx(release, release[p],
                                                   FnTmpl(cfg.name, extMap(p))).name)) :
                    p \in {q \in {"tar_url", "zip_url"} : Truthy(release[q])}}
           : i \in 1 .. Len(cfg.releases)}

\* What upstream serves for a download item of the current snapshot.
Served(cfg, tag, item) ==
    LET hits == {a \in UNION {SeqRange(cfg.releases[i].assets) :
                                 i \in {k \in 1 .. Len(cfg.releases) : cfg.releases[k].tag = tag}} :
                    a.name = item.filename /\ a.download_url = item.downloadUrl}
    IN  IF hits # {} THEN (CHOOSE a \in hits : TRUE).digest ELSE item.downloadUrl

\* The tree a configuration claims, every file with the content upstream serves.
ServedTree(cfg) ==
    LET files == UNION {LET release == cfg.releases[i]
                        IN  {[path |-> PathJoin(release.tag, release.assets[j].name),
                              content |-> release.assets[j].digest] :
                                 j \in 1 .. Len(release.assets)}
                              \cup
                            {[path |-> PathJoin(release.tag,
                                         ArchivePath(genArchiveCtx(release, release[p],
                                                        FnTmpl(cfg.name, extMap(p))).name)),
                              content |-> release[p]] :
                                 p \in {q \in {"tar_url", "zip_url"} : Truthy(release[q])}}
                        : i \in 1 .. Len(cfg.releases)}
    IN  [p \in {f.path : f \in files} |-> (CHOOSE f \in files : f.path = p).content]

\* rsync -ahr --partial src/ dst/ : every file below src lands in dst
RsyncInto(src, dst) ==
    [p \in DOMAIN src \cup DOMAIN dst |-> IF p \in DOMAIN src THEN src[p] ELSE dst[p]]

\* rsync -ar --delete --ignore-existing sender/ dst/ with a sender of empty
\* files: what the sender lacks is deleted, what the receiver lacks is
\* created from the sender, what both have is left alone.
RsyncDeleteIgnoreExisting(sender, dst) ==
    [p \in sender |-> IF p \in DOMAIN dst THEN dst[p] ELSE Empty]

\* The map m without the key k.
Without(m, k) == [p \in DOMAIN m \ {k} |-> m[p]]

(***************************************************************************)
(* The runs that are modelled: one release under Tag1, optionally next to  *)
(* a release under Tag2 that has archives only; a target that holds what   *)
(* the compare configuration claims, or lacks one of those files.  The     *)
(* download tasks are the lockers TaskIds, main is the drainer Main.       *)
(***************************************************************************)

TaskIds == <<"T1", "T2", "T3">>
Main == "W1"

\* An asset named like the zip archive of the release under Tag1.
AssetZ == genArchiveCtx(Release(Tag1, <<>>, "", ""), "", FnTmpl(RepoName, extMap("zip_url"))).name

\* A release with an asset and both archives.
FullRelease == Release(Tag1, <<BaseAsset(AssetZ)>>, "https://zip/1", "https://tar/1")

\* The release of the freshly generated configuration.
RunReleases ==
    {Release(Tag1, as, zip, "") :
        as \in {<<>>, <<BaseAsset(AssetA)>>, <<Asset(AssetA, "https://dl/1", 10, "sha256:2")>>,
                <<BaseAsset(AssetZ)>>},
        zip \in {"", "https://zip/1"}}
      \cup {FullRelease}

\* The release of the compare configuration.
FormerRunReleases ==
    {Release(Tag1, as, zip, "") :
        as \in {<<>>, <<BaseAsset(AssetA)>>},
        zip \in {"", "https://zip/1"}}

\* A release that has archives only, which the compare configuration may hold.
ArchiveOnlyRelease == Release(Tag2, <<>>, "https://zip/1", "")

RunConfigs == ConfigsOf(RunReleases, {})
FormerRunConfigs == ConfigsOf(FormerRunReleases, {ArchiveOnlyRelease})

\* --download-url-tmpl as given on the command line
UrlTemplate == <<"/">> \o Braced(<<"t", "a", "g">>) \o <<"/">> \o Braced(<<"n", "a", "m", "e">>)

\* --save is given; the download flags are only given with --download-target,
\* a URL template ("" by default) only with --www-root.
SyncOptions ==
    {o \in [downloadTarget : BOOLEAN, fastFail : BOOLEAN, fastSync : BOOLEAN,
            wwwRootDir : BOOLEAN, saveConfigPath : {TRUE},
            downloadUrlTmpl : {<<>>, UrlTemplate}] :
        /\ ~o.downloadTarget => (~o.fastFail /\ ~o.fastSync)
        /\ o.downloadUrlTmpl # <<>> => o.wwwRootDir}

\* The target before the first run.
Targets(cmp) ==
    IF cmp = Null THEN {<<>>}
    ELSE {ServedTree(cmp)} \cup {Without(ServedTree(cmp), p) : p \in DOMAIN ServedTree(cmp)}

NoDownloads == [fix |-> <<>>, add |-> <<>>, modify |-> <<>>]

\* Every item the loop can take has a task to run it.
Fits(cfg, cmp) ==
    LET r == collectDiff(cfg, cmp)
    IN  CountItems(r.add) + CountItems(r.modify) + CountItems(r.passedModify) <= Len(TaskIds)

RunInit ==
    /\ options \in SyncOptions
    /\ max \in IF options.downloadTarget THEN 1 .. MaxCap ELSE {1}
    /\ num = 0
    /\ waitingLockers = <<>>
    /\ waitingAllResolvers = <<>>
    /\ len = 0
    /\ waitingResolvers = <<>>
    /\ microtasks = <<>>
    /\ pc = [c \in Lockers \cup Drainers |-> "idle"]
    /\ callSeq = <<>>
    /\ admitSeq = <<>>
    /\ drainedBy = [d \in Drainers |-> "none"]
    /\ config \in RunConfigs
    /\ compareConfig \in FormerRunConfigs \cup {Null}
    /\ Fits(config, compareConfig)
    /\ Fits(config, config)
    /\ rec = Null
    /\ diffPc = "input"
    /\ target \in Targets(compareConfig)
    /\ downloads = NoDownloads
    /\ diff = Null
    /\ counter = [success |-> 0, failed |-> 0]
    /\ needMoveFiles = {}
    /\ issued = 0
    /\ mainPc = "diff"
    /\ run = "first"
    /\ journal = <<>>
    /\ exitCode = <<>>
    /\ savedConfig = compareConfig
    /\ rootSynced = FALSE
    /\ firstRun = Null
    /\ NoAux

\* The item a task downloads.
TaskOf(t) == iterator(diff, config)[CHOOSE i \in 1 .. Len(TaskIds) : TaskIds[i] = t]

DestPath(t) == PathJoin(TaskOf(t).tag, TaskOf(t).item.filename)

\* main from the fix pass to the first mutex.lock() of the download loop
RunFixPass ==
    /\ mainPc = "diff"
    /\ diffPc = "done"
    /\ LET d == [add |-> rec.add, remove |-> rec.remove, modify |-> rec.modify,
                 fix |-> FixPass(rec, options, target)]
           diffCount == countDiffFiles(d, compareConfig)
       IN  /\ diff' = d
           /\ IF /\ needSync(diffCount)
                 /\ options.downloadTarget
                 /\ diffCount.add + diffCount.modify + diffCount.fix > 0
              THEN /\ mainPc' = "download"
                   /\ issued' = 1
                   /\ pc' = [pc EXCEPT ![TaskIds[1]] = "locking"]
                   /\ Enter(Job("lock", TaskIds[1]))
              ELSE /\ mainPc' = IF needSync(diffCount) THEN "relocFix" ELSE "publish"
                   /\ UNCHANGED <<issued, pc, len, waitingResolvers, microtasks>>
    /\ UNCHANGED <<max, num, waitingLockers, waitingAllResolvers, callSeq, admitSeq, drainedBy,
                   diffVars, options, target, downloads, counter, needMoveFiles, run, journal,
                   exitCode, savedConfig, rootSynced, firstRun, auxVars>>

\* mutex.lock() resolved: the task starts its download and the loop goes on
\* to the next mutex.lock(), or to mutex.waitAll() after the last item.
StartDownload ==
    /\ mainPc = "download"
    /\ pc[TaskIds[issued]] = "holding"
    /\ IF issued < Len(iterator(diff, config))
       THEN /\ issued' = issued + 1
            /\ pc' = [pc EXCEPT ![TaskIds[issued]] = "downloading",
                                ![TaskIds[issued + 1]] = "locking"]
            /\ Enter(Job("lock", TaskIds[issued + 1]))
            /\ UNCHANGED mainPc
       ELSE /\ pc' = [pc EXCEPT ![TaskIds[issued]] = "downloading", ![Main] = "waiting"]
            /\ Enter(Job("waitAll", Main))
            /\ mainPc' = "drain"
            /\ UNCHANGED issued
    /\ UNCHANGED <<max, num, waitingLockers, waitingAllResolvers, callSeq, admitSeq, drainedBy,
                   diffVars, options, target, downloads, diff, counter, needMoveFiles, run,
                   journal, exitCode, savedConfig, rootSynced, firstRun, auxVars>>

\* downloadFile returned true
DownloadSucceeds(t) ==
    /\ mainPc \in {"download", "drain"}
    /\ pc[t] = "downloading"
    /\ Truthy(TaskOf(t).item.downloadUrl)
    /\ downloads' = [downloads EXCEPT ![TaskOf(t).mvType] =
                        Put(@, DestPath(t), Served(config, TaskOf(t).tag, TaskOf(t).item))]
    /\ counter' = [counter EXCEPT !.success = @ + 1]
    /\ IF options.fastSync
       THEN /\ pc' = [pc EXCEPT ![t] = "moving"]
            /\ UNCHANGED <<needMoveFiles, len, waitingResolvers, microtasks>>
       ELSE /\ needMoveFiles' = needMoveFiles \cup
                                   {[type |-> TaskOf(t).mvType, tag |-> TaskOf(t).tag,
                                     item |-> TaskOf(t).item]}
            /\ pc' = [pc EXCEPT ![t] = "finished"]
            /\ Enter(Job("release", t))
    /\ UNCHANGED <<max, num, waitingLockers, waitingAllResolvers, callSeq, admitSeq, drainedBy,
                   diffVars, options, target, diff, issued, mainPc, run, journal, exitCode,
                   savedConfig, rootSynced, firstRun, auxVars>>

\* A failed download that never ends the process.
DownloadFailsNoExit(t, leftover) ==
    /\ mainPc \in {"download", "drain"}
    /\ pc[t] = "downloading"
    /\ downloads' = IF leftover
                    THEN [downloads EXCEPT ![TaskOf(t).mvType] = Put(@, DestPath(t), Partial)]
                    ELSE downloads
    /\ counter' = [counter EXCEPT !.failed = @ + 1]
    /\ pc' = [pc EXCEPT ![t] = "failed"]
    /\ Enter(Job("release", t))
    /\ UNCHANGED <<max, num, waitingLockers, waitingAllResolvers, callSeq, admitSeq, drainedBy,
                   diffVars, options, target, diff, needMoveFiles, issued, mainPc, run, journal,
                   exitCode, savedConfig, rootSynced, firstRun, auxVars>>

\* A failed download whose task keeps its slot.
DownloadFailsNoRelease(t, leftover) ==
    /\ mainPc \in {"download", "drain"}
    /\ pc[t] = "downloading"
    /\ downloads' = IF leftover
                    THEN [downloads EXCEPT ![TaskOf(t).mvType] = Put(@, DestPath(t), Partial)]
                    ELSE downloads
    /\ counter' = [counter EXCEPT !.failed = @ + 1]
    /\ IF options.fastFail
       THEN /\ exitCode' = <<1>>
            /\ mainPc' = "exited"
            /\ UNCHANGED pc
       ELSE /\ pc' = [pc EXCEPT ![t] = "failed"]
            /\ UNCHANGED <<exitCode, mainPc>>
    /\ UNCHANGED <<max, num, waitingLockers, waitingAllResolvers, callSeq, admitSeq, drainedBy,
                   len, waitingResolvers, microtasks,
                   diffVars, options, target, diff, needMoveFiles, issued, run, journal,
                   savedConfig, rootSynced, firstRun, auxVars>>

\* downloadFile returned false; the downloader may have left a file behind
DownloadFails(t, leftover) ==
    /\ mainPc \in {"download", "drain"}
    /\ pc[t] = "downloading"
    /\ downloads' = IF leftover
                    THEN [downloads EXCEPT ![TaskOf(t).mvType] = Put(@, DestPath(t), Partial)]
                    ELSE downloads
    /\ counter' = [counter EXCEPT !.failed = @ + 1]
    /\ IF options.fastFail
       THEN /\ exitCode' = <<1>>
            /\ mainPc' = "exited"
            /\ UNCHANGED <<pc, len, waitingResolvers, microtasks>>
       ELSE /\ pc' = [pc EXCEPT ![t] = "failed"]
            /\ Enter(Job("release", t))
            /\ UNCHANGED <<exitCode, mainPc>>
    /\ UNCHANGED <<max, num, waitingLockers, waitingAllResolvers, callSeq, admitSeq, drainedBy,
                   diffVars, options, target, diff, needMoveFiles, issued, run, journal,
                   savedConfig, rootSynced, firstRun, auxVars>>

\* A --fast-sync task that completes and leaves its file in the staging area.
MoveSingleKeepsStaged(t) ==
    /\ mainPc \in {"download", "drain"}
    /\ pc[t] = "moving"
    /\ pc' = [pc EXCEPT ![t] = "finished"]
    /\ Enter(Job("release", t))
    /\ UNCHANGED <<max, num, waitingLockers, waitingAllResolvers, callSeq, admitSeq, drainedBy,
                   diffVars, options, diff, counter, needMoveFiles, issued, run, target,
                   downloads, exitCode, mainPc,
                   journal, savedConfig, rootSynced, firstRun, auxVars>>

\* moveDlSingleFile returned: rsync -a --partial --remove-source-files moved
\* the staged file, or failed for want of it (pDlSingle.catch: exit 1)
MoveSingle(t) ==
    /\ mainPc \in {"download", "drain"}
    /\ pc[t] = "moving"
    /\ IF HasKey(downloads[TaskOf(t).mvType], DestPath(t))
       THEN /\ target' = Put(target, DestPath(t), downloads[TaskOf(t).mvType][DestPath(t)])
            /\ downloads' = [downloads EXCEPT ![TaskOf(t).mvType] = Without(@, DestPath(t))]
            /\ pc' = [pc EXCEPT ![t] = "finished"]
            /\ Enter(Job("release", t))
            /\ UNCHANGED <<exitCode, mainPc>>
       ELSE /\ exitCode' = <<1>>
            /\ mainPc' = "exited"
            /\ UNCHANGED <<target, downloads, pc, len, waitingResolvers, microtasks>>
    /\ UNCHANGED <<max, num, waitingLockers, waitingAllResolvers, callSeq, admitSeq, drainedBy,
                   diffVars, options, diff, counter, needMoveFiles, issued, run,
                   journal, savedConfig, rootSynced, firstRun, auxVars>>

\* A main that goes on without the result of mutex.waitAll().
DrainedNoWait ==
    /\ mainPc = "drain"
    /\ mainPc' = "relocFix"
    /\ UNCHANGED <<mutexVars, diffVars, options, target, downloads, diff, counter,
                   needMoveFiles, issued, run, journal, exitCode, savedConfig, rootSynced,
                   firstRun, auxVars>>

\* await mutex.waitAll() returned
Drained ==
    /\ mainPc = "drain"
    /\ pc[Main] = "drained"
    /\ mainPc' = "relocFix"
    /\ UNCHANGED <<mutexVars, diffVars, options, target, downloads, diff, counter,
                   needMoveFiles, issued, run, journal, exitCode, savedConfig, rootSynced,
                   firstRun, auxVars>>

needMoveCount(mvType) == Cardinality({mv \in needMoveFiles : mv.type = mvType})

\* if (needMoveCount[mvType]) await rsync tempDownloadDir/mvType/ downloadTarget/
Relocate(mvType, nextPc) ==
    /\ IF needMoveCount(mvType) > 0
       THEN /\ target' = RsyncInto(downloads[mvType], target)
            /\ journal' = Append(journal, mvType)
       ELSE UNCHANGED <<target, journal>>
    /\ mainPc' = nextPc
    /\ UNCHANGED <<mutexVars, diffVars, options, downloads, diff, counter, needMoveFiles,
                   issued, run, exitCode, savedConfig, rootSynced, firstRun, auxVars>>

\* A first relocation that copies the modify batch instead of the fix batch.
RelocateModifyFirst == mainPc = "relocFix" /\ Relocate("modify", "relocAdd")

RelocateFix == mainPc = "relocFix" /\ Relocate("fix", "relocAdd")
RelocateAdd == mainPc = "relocAdd" /\ Relocate("add", "relocModify")
RelocateModify == mainPc = "relocModify" /\ Relocate("modify", "publish")

\* A syncFrontEnd that applies the URL template to the loaded configuration
\* itself.
PublishInPlace ==
    /\ mainPc = "publish"
    /\ journal' = IF options.wwwRootDir THEN Append(journal, "publish") ELSE journal
    /\ config' = IF options.wwwRootDir
                 THEN BuildConfig(config, options.downloadUrlTmpl) ELSE config
    /\ buildConfig' = IF options.wwwRootDir THEN config' ELSE buildConfig
    /\ mainPc' = IF needSync(countDiffFiles(diff, compareConfig)) THEN "remove" ELSE "save"
    /\ UNCHANGED <<mutexVars, compareConfig, rec, diffPc, options, target, downloads, diff,
                   counter, needMoveFiles, issued, run, exitCode, savedConfig, rootSynced,
                   firstRun, call, result, procPc, workDir, failed, counts, moved,
                   compareFile, saved>>

\* await syncFrontEnd(...), in either branch of if (needSync): with a www
\* root, config.json is read again and config.build.json written from it.
Publish ==
    /\ mainPc = "publish"
    /\ journal' = IF options.wwwRootDir THEN Append(journal, "publish") ELSE journal
    /\ buildConfig' = IF options.wwwRootDir
                      THEN BuildConfig(config, options.downloadUrlTmpl) ELSE buildConfig
    /\ mainPc' = IF needSync(countDiffFiles(diff, compareConfig)) THEN "remove" ELSE "save"
    /\ UNCHANGED <<mutexVars, diffVars, options, target, downloads, diff, counter,
                   needMoveFiles, issued, run, exitCode, savedConfig, rootSynced, firstRun,
                   call, result, procPc, workDir, failed, counts, moved, compareFile, saved>>

\* if (diffCount.remove > 0) { mirror; rsync -ar --delete --ignore-existing }
Remove ==
    /\ mainPc = "remove"
    /\ IF countDiffFiles(diff, compareConfig).remove > 0
       THEN /\ journal' = Append(journal, "remove")
            /\ IF options.downloadTarget
               THEN /\ target' = RsyncDeleteIgnoreExisting(
                                     createLocalEmptyDownloadTarget(config), target)
                    /\ UNCHANGED rootSynced
               ELSE /\ rootSynced' = TRUE
                    /\ UNCHANGED target
       ELSE UNCHANGED <<journal, target, rootSynced>>
    /\ mainPc' = "save"
    /\ UNCHANGED <<mutexVars, diffVars, options, downloads, diff, counter, needMoveFiles,
                   issued, run, exitCode, savedConfig, firstRun, auxVars>>

\* if (options.saveConfigPath) rsync -a configJsonPath savePath; "Done."
Save ==
    /\ mainPc = "save"
    /\ IF options.saveConfigPath
       THEN /\ savedConfig' = config
            /\ journal' = Append(journal, "save")
       ELSE UNCHANGED <<savedConfig, journal>>
    /\ mainPc' = "done"
    /\ exitCode' = <<0>>
    /\ UNCHANGED <<mutexVars, diffVars, options, target, downloads, diff, counter,
                   needMoveFiles, issued, run, rootSynced, firstRun, auxVars>>

\* The program is started again over the same target and the same upstream
\* snapshot, its compare file being the file at the --save path.
NextRun ==
    /\ mainPc = "done"
    /\ run = "first"
    /\ run' = "second"
    /\ firstRun' = [failed |-> {TaskOf(t) : t \in {u \in Lockers : pc[u] = "failed"}},
                    journal |-> journal]
    /\ compareConfig' = savedConfig
    /\ rec' = Null
    /\ diffPc' = "input"
    /\ num' = 0
    /\ waitingLockers' = <<>>
    /\ waitingAllResolvers' = <<>>
    /\ len' = 0
    /\ waitingResolvers' = <<>>
    /\ microtasks' = <<>>
    /\ pc' = [c \in Lockers \cup Drainers |-> "idle"]
    /\ admitSeq' = <<>>
    /\ drainedBy' = [d \in Drainers |-> "none"]
    /\ downloads' = NoDownloads
    /\ diff' = Null
    /\ counter' = [success |-> 0, failed |-> 0]
    /\ needMoveFiles' = {}
    /\ issued' = 0
    /\ mainPc' = "diff"
    /\ journal' = <<>>
    /\ exitCode' = <<>>
    /\ buildConfig' = Null
    /\ UNCHANGED <<max, callSeq, config, options, target, savedConfig, rootSynced,
                   call, result, procPc, workDir, failed, counts, moved, compareFile, saved>>

\* The promise-job queue of the running process.
RunJob ==
    /\ exitCode = <<>>
    /\ (RunLock \/ RunRelease \/ RunWaitAll)

RunNext ==
    \/ CollectDiff
    \/ RunFixPass
    \/ StartDownload
    \/ \E t \in Lockers : DownloadSucceeds(t)
    \/ \E t \in Lockers, leftover \in BOOLEAN : DownloadFails(t, leftover)
    \/ \E t \in Lockers : MoveSingle(t)
    \/ RunJob
    \/ Drained
    \/ RelocateFix
    \/ RelocateAdd
    \/ RelocateModify
    \/ Publish
    \/ Remove
    \/ Save
    \/ NextRun

RunSpec == RunInit /\ [][RunNext]_vars

(***************************************************************************)
(* Properties of a run.                                                    *)
(***************************************************************************)

\* The filenames listed under tag in one of add, modify, fix.
FilenamesOf(o, tag) == {ListOf(o, tag)[i].filename : i \in 1 .. Len(ListOf(o, tag))}

\* C11: after the fix pass, no filename listed under a tag in add, modify or
\* fix is also listed under that tag in remove.
C11_AddRemoveDisjoint ==
    diff # Null =>
        \A tag \in DOMAIN diff.remove :
            SeqRange(diff.remove[tag].files)
                \cap (FilenamesOf(diff.add, tag) \cup FilenamesOf(diff.modify, tag)
                        \cup FilenamesOf(diff.fix, tag)) = {}

\* C12: a tag whose remove entry is "*" is a tag the current configuration
\* lacks; it is no key of add, modify, passedModify or fix, and nothing was
\* appended to its entry.
C12_SentinelExclusive ==
    diff # Null =>
        \A tag \in DOMAIN diff.remove :
            diff.remove[tag].star =>
                /\ tag \notin Tags(config)
                /\ tag \notin DOMAIN diff.add \cup DOMAIN diff.modify
                                \cup DOMAIN rec.passedModify \cup DOMAIN diff.fix
                /\ diff.remove[tag].files = <<>>

\* C12 witness: one release was removed as a whole while the other lost its
\* asset and its archive and got a new asset.
C12_Witness ==
    /\ diff # Null
    /\ DOMAIN diff.remove = {Tag1, Tag2}
    /\ diff.remove[Tag2].star
    /\ ~diff.remove[Tag1].star
    /\ Len(diff.remove[Tag1].files) = 2
    /\ Tag1 \in DOMAIN diff.add

\* The passedModify items of a tag that the target lacks and that neither
\* add nor modify lists under the tag.
MissingUnchanged(tag) ==
    SelectSeq(ListOf(rec.passedModify, tag),
              LAMBDA item : /\ PathJoin(tag, item.filename) \notin DOMAIN target
                            /\ item.filename \notin FilenamesOf(rec.add, tag)
                                                      \cup FilenamesOf(rec.modify, tag))

\* C13: the fix pass leaves in fix, with a download target, exactly the
\* passedModify items whose path tag/filename the target lacks and that are
\* not scheduled under add or modify for the tag; without a download target
\* it leaves fix empty.
C13_FixDerivation ==
    [][(diff = Null /\ diff' # Null) =>
          /\ DOMAIN diff'.fix \subseteq DOMAIN rec.passedModify
          /\ \A tag \in DOMAIN rec.passedModify :
                ListOf(diff'.fix, tag) = IF options.downloadTarget
                                         THEN MissingUnchanged(tag) ELSE <<>>
          /\ \A tag \in DOMAIN diff'.fix : diff'.fix[tag] # <<>>]_vars

\* C13 witness: of two unchanged items of a release the target lacked one,
\* which is the only one under fix.
C13_Witness ==
    /\ diff # Null
    /\ options.downloadTarget
    /\ Tag1 \in DOMAIN diff.fix
    /\ Len(rec.passedModify[Tag1]) = 2
    /\ Len(diff.fix[Tag1]) = 1

\* The bulk commands of a run, in the order the phases prescribe.
PhaseOrder == <<"fix", "add", "modify", "publish", "remove", "save">>
Rank(e) == CHOOSE i \in 1 .. Len(PhaseOrder) : PhaseOrder[i] = e

\* No download task is still at work.
Quiescent == \A t \in Lockers : pc[t] \in {"idle", "finished", "failed"}

\* C14: the bulk commands of a run are issued in the order fix, add, modify,
\* publish, remove, each at most once and each after the previous one has
\* completed, and none is issued while a download or a single-file move is
\* still at work.
C14_PhaseOrder ==
    /\ \A i, j \in 1 .. Len(journal) : i < j => Rank(journal[i]) < Rank(journal[j])
    /\ (journal # <<>> \/ mainPc \in {"relocFix", "relocAdd", "relocModify", "publish",
                                      "remove", "save", "done"}) => Quiescent

\* C14 witness: a run relocated a fix, an add and a modify batch, published
\* and then removed.
C14_Witness ==
    /\ Len(journal) >= 5
    /\ SubSeq(journal, 1, 5) = SubSeq(PhaseOrder, 1, 5)

\* The paths the current snapshot claims: tag/asset for every asset and
\* tag/archive/<synthetic name> for every non-empty archive slot.
ClaimedPaths(cfg) ==
    UNION {{PathJoin(cfg.releases[i].tag, it.filename) :
               it \in ExpectedItems(cfg, cfg.releases[i])} : i \in 1 .. Len(cfg.releases)}

\* The step in which main issues the delete-extraneous transfer.
RemoveStep == journal' = Append(journal, "remove")

\* C15: the remove phase keeps, with its content, every file of the target
\* that the current snapshot claims.
C15_RemoveKeepsClaimed ==
    [][RemoveStep =>
          \A p \in ClaimedPaths(config) \cap DOMAIN target :
              p \in DOMAIN target' /\ target'[p] = target[p]]_vars

\* C15 witness: after a download had failed, the remove phase ran on a target
\* that still holds a downloaded file the snapshot claims.
C15_Witness ==
    /\ mainPc = "save"
    /\ Len(journal) > 0
    /\ journal[Len(journal)] = "remove"
    /\ options.downloadTarget
    /\ counter.failed > 0
    /\ \E p \in ClaimedPaths(config) \cap DOMAIN target : target[p] \notin {Empty, Partial}

\* The path lies below the directory of the tag.
Below(p, tag) == Len(p) > Len(tag) /\ SubSeq(p, 1, Len(tag) + 1) = tag \o <<"/">>

\* C16: when a run with a download target has completed, the target holds no
\* file below a tag whose remove entry is "*", and none of the files listed
\* in an explicit remove entry.
C16_RemoveEffect ==
    (mainPc = "done" /\ options.downloadTarget) =>
        \A tag \in DOMAIN diff.remove :
            IF diff.remove[tag].star
            THEN \A p \in DOMAIN target : ~Below(p, tag)
            ELSE \A fn \in SeqRange(diff.remove[tag].files) :
                     PathJoin(tag, fn) \notin DOMAIN target

\* The step in which a download fails.
FailureStep == counter'.failed > counter.failed

\* C17: with --fast-fail the step of the first failed download ends the
\* process with status 1, before any batch relocation, publish, remove or
\* save, and nothing happens after it; without --fast-fail the failure
\* leaves main where it is and the process running.
C17_FailFast ==
    /\ []((options.fastFail /\ counter.failed > 0) =>
              /\ mainPc = "exited"
              /\ exitCode = <<1>>
              /\ counter.failed = 1
              /\ journal = <<>>)
    /\ [][/\ mainPc # "exited"
          /\ (FailureStep /\ ~options.fastFail) => (mainPc' = mainPc /\ exitCode' = <<>>)]_vars

\* C17 witness: with --fast-fail a download failed after another one had
\* succeeded, whose file is left in the staging directory.
C17_Witness ==
    /\ options.fastFail
    /\ ~options.fastSync
    /\ exitCode = <<1>>
    /\ counter.failed = 1
    /\ counter.success >= 1
    /\ needMoveFiles # {}

\* The step in which the second run completes its fix pass.
SecondFixPassStep == run = "second" /\ diff = Null /\ diff' # Null

\* C18: an item whose download failed in the first run is not in the target
\* when the second run probes it, is classified passedModify by the second
\* run and is scheduled under fix.
C18_FailedStaysHealable ==
    [][(SecondFixPassStep /\ options.downloadTarget) =>
          \A f \in firstRun.failed :
              /\ PathJoin(f.tag, f.item.filename) \notin DOMAIN target
              /\ f.item \in SeqRange(ListOf(rec.passedModify, f.tag))
              /\ f.item \in SeqRange(ListOf(diff'.fix, f.tag))]_vars

\* C19: when a first run with failed downloads is followed by a second run
\* without failures, the target holds, after the second run, every file the
\* current snapshot claims, with the content upstream serves for it.
C19_Convergence ==
    (/\ run = "second"
     /\ mainPc = "done"
     /\ options.downloadTarget
     /\ firstRun.failed # {}
     /\ counter.failed = 0) =>
        \A p \in DOMAIN ServedTree(config) :
            p \in DOMAIN target /\ target[p] = ServedTree(config)[p]

\* Every count of the report is zero.
NothingCounted(d) ==
    LET c == countDiffFiles(d, compareConfig)
    IN  c.add = 0 /\ c.remove = 0 /\ c.modify = 0 /\ c.fix = 0

\* C20: main takes the nothing-to-sync branch exactly when the add, remove,
\* modify and fix counts are all zero; a run on that branch starts no
\* download, issues no relocation and no remove, and still publishes when a
\* www root is configured.
C20_NothingToSync ==
    /\ [][(diff = Null /\ diff' # Null) => ((mainPc' = "publish") <=> NothingCounted(diff'))]_vars
    /\ []((diff # Null /\ NothingCounted(diff)) =>
              /\ mainPc \in {"publish", "save", "done"}
              /\ issued = 0
              /\ counter = [success |-> 0, failed |-> 0]
              /\ downloads = NoDownloads
              /\ \A i \in 1 .. Len(journal) : journal[i] \in {"publish", "save"}
              /\ mainPc \in {"save", "done"} =>
                     (options.wwwRootDir <=> (journal # <<>> /\ journal[1] = "publish")))

\* C20 witness: a run with a download target found every file of an unchanged
\* release in place, published and ended.
C20_Witness ==
    /\ mainPc = "done"
    /\ diff # Null
    /\ NothingCounted(diff)
    /\ options.downloadTarget
    /\ Tag1 \in DOMAIN rec.passedModify
    /\ journal = <<"publish", "save">>

\* ---------------------------------------------------------------------
\* The counts reported for a diff
\* ---------------------------------------------------------------------

\* The number of <<tag, index>> slots of a tag-keyed record of lists.
SlotsOf(o) == UNION {{<<tag, i>> : i \in 1 .. Len(o[tag])} : tag \in DOMAIN o}

\* The assets that the release of this tag has in the compare snapshot.
FormerAssetCount(cmp, tag) ==
    IF cmp # Null /\ MapHas(cmp.releases, "tag", tag)
    THEN Len(MapGet(cmp.releases, "tag", tag).assets)
    ELSE 0

\* The removed files: listed ones, and for a "*" tag the assets of that tag.
RemovedSlots(d, cmp) ==
    UNION {{<<tag, i>> : i \in 1 .. (IF d.remove[tag].star
                                      THEN FormerAssetCount(cmp, tag)
                                      ELSE Len(d.remove[tag].files))} :
           tag \in DOMAIN d.remove}

\* C21: countDiffFiles returns add, modify and fix as the number of items
\* over all tags, and remove as the listed files plus, for every tag marked
\* "*", the number of assets of that very tag's release in the compare
\* snapshot, also when several tags are removed in one diff.
C21_ReportCounts ==
    diff # Null =>
        countDiffFiles(diff, compareConfig) =
            [add |-> Cardinality(SlotsOf(diff.add)),
             remove |-> Cardinality(RemovedSlots(diff, compareConfig)),
             modify |-> Cardinality(SlotsOf(diff.modify)),
             fix |-> Cardinality(SlotsOf(diff.fix))]

\* ---------------------------------------------------------------------
\* The life cycle of the sync process: external commands, errors, exits
\* ---------------------------------------------------------------------

\* How each external command is started: through Bun.spawnSync followed by
\* panicSubprocess, through the shell $`...` (which rejects on a non-zero
\* exit), or through $`...`.nothrow().
Launch ==
    [mktemp |-> "shell", loadCompare |-> "shell", generate |-> "spawnSync",
     moveSingle |-> "shell", relocate |-> "shell", build |-> "shell",
     wwwSync |-> "shell", remove |-> "shell", save |-> "shell",
     probe |-> "nothrow", download |-> "nothrow"]

\* What a failing command (non-zero exit or killed by a signal) throws.
\* panicSubprocess throws SubprocessError for an exit code and for a signal
\* code; the shell throws its own ShellError; nothrow throws nothing.
Thrown(cmd) ==
    CASE Launch[cmd] = "spawnSync" -> "SubprocessError"
      [] Launch[cmd] = "shell" -> "ShellError"
      [] OTHER -> "none"

\* main().catch: 13 for a SubprocessError, 2 for anything else.
CatchExit(e) == IF e = "SubprocessError" THEN 13 ELSE 2

\* rm -rf workDir
Rm(wd) == [wd EXCEPT !.exists = FALSE, !.removals = @ + 1]

\* The "exit" handler that removes the directory also after an interrupt.
ExitHandlerNoGuard(code, wd) == Rm(wd)

\* process.on("exit"): nothing for code 130, otherwise rm -rf workDir.
ExitHandler(code, wd) == IF code = 130 THEN wd ELSE Rm(wd)

\* process.exit(code), or the natural end of the process: the exit handler
\* runs if it was registered, which main does right after mktemp returned.
ProcessExit(code) ==
    /\ procPc' = "exited"
    /\ exitCode' = <<code>>
    /\ workDir' = IF workDir.made THEN ExitHandler(code, workDir) ELSE workDir

\* An exception that leaves main and reaches main().catch.
Throw(cmd) ==
    /\ failed' = cmd
    /\ ProcessExit(CatchExit(Thrown(cmd)))

\* The options of a run, as far as the control flow of main reads them.
ExitOptions ==
    {o \in [downloadTarget : BOOLEAN, fastFail : BOOLEAN, fastSync : BOOLEAN,
            wwwRootDir : BOOLEAN, saveConfigPath : BOOLEAN,
            compareConfigPath : BOOLEAN] :
        (o.fastFail \/ o.fastSync) => o.downloadTarget}

DiffCounts == [add : 0 .. 1, remove : 0 .. 1, modify : 0 .. 1, fix : 0 .. 1]

MvTypes == {"fix", "add", "modify"}

\* What the probe of the compare path and JSON.parse can find there.
CompareFiles == {"absent", "json", "garbage"}

ExitInit ==
    /\ max = 1
    /\ num = 0
    /\ waitingLockers = <<>>
    /\ waitingAllResolvers = <<>>
    /\ len = 0
    /\ waitingResolvers = <<>>
    /\ microtasks = <<>>
    /\ pc = [t \in Lockers \cup Drainers |-> "idle"]
    /\ callSeq = <<>>
    /\ admitSeq = <<>>
    /\ drainedBy = [w \in Drainers |-> {}]
    /\ config = Null
    /\ compareConfig = Null
    /\ rec = Null
    /\ diffPc = "off"
    /\ target = <<>>
    /\ downloads = Null
    /\ diff = Null
    /\ counter = Null
    /\ needMoveFiles = {}
    /\ issued = 0
    /\ mainPc = "off"
    /\ run = "none"
    /\ journal = <<>>
    /\ savedConfig = Null
    /\ rootSynced = FALSE
    /\ firstRun = Null
    /\ call = Null
    /\ result = <<>>
    /\ options \in ExitOptions
    /\ exitCode = <<>>
    /\ procPc = "start"
    /\ workDir = [made |-> FALSE, exists |-> FALSE, removals |-> 0]
    /\ failed = "none"
    /\ counts = Null
    /\ moved = {}
    /\ compareFile \in IF options.compareConfigPath THEN CompareFiles ELSE {"absent"}
    /\ saved = FALSE
    /\ buildConfig = Null

\* What no step of the life cycle touches.
ExitRest ==
    UNCHANGED <<mutexVars, diffVars, options, target, downloads, diff, counter,
                needMoveFiles, issued, mainPc, run, journal, savedConfig, rootSynced,
                firstRun, call, result, buildConfig, compareFile>>

\* What only the save touches.
ExitFrame == ExitRest /\ UNCHANGED saved

\* parseArgs and ensureCommand: a usage or validation error exits with 1.
Validate(valid) ==
    /\ procPc = "start"
    /\ IF valid
       THEN /\ procPc' = "mktemp"
            /\ UNCHANGED <<exitCode, workDir>>
       ELSE ProcessExit(1)
    /\ UNCHANGED <<failed, counts, moved>>
    /\ ExitFrame

\* mktemp -d, and in the same continuation the registration of the "exit"
\* and SIGINT handlers.
MakeWorkDir(ok) ==
    /\ procPc = "mktemp"
    /\ IF ok
       THEN /\ workDir' = [made |-> TRUE, exists |-> TRUE, removals |-> 0]
            /\ procPc' = "compare"
            /\ UNCHANGED <<exitCode, failed>>
       ELSE Throw("mktemp")
    /\ UNCHANGED <<counts, moved>>
    /\ ExitFrame

\* compareConfig is not null after the loading step.
CompareLoaded == options.compareConfigPath /\ compareFile = "json"

\* A loading step that goes on without a compare configuration when the
\* content is not JSON.
LoadCompareLenient(ok) ==
    /\ procPc = "compare"
    /\ IF ~options.compareConfigPath \/ compareFile = "absent"
       THEN /\ ok
            /\ procPc' = "generate"
            /\ UNCHANGED <<exitCode, workDir, failed>>
       ELSE IF ~ok THEN Throw("loadCompare")
       ELSE /\ procPc' = "generate"
            /\ UNCHANGED <<exitCode, workDir, failed>>
    /\ UNCHANGED <<counts, moved>>
    /\ ExitFrame

\* Loading the compare configuration: nothing is run without a compare path;
\* the probe never throws and an empty answer is a warning; the copy is a
\* shell command (ok); content that JSON.parse rejects exits with 1.
LoadCompare(ok) ==
    /\ procPc = "compare"
    /\ IF ~options.compareConfigPath \/ compareFile = "absent"
       THEN /\ ok
            /\ procPc' = "generate"
            /\ UNCHANGED <<exitCode, workDir, failed>>
       ELSE IF ~ok THEN Throw("loadCompare")
       ELSE IF compareFile = "garbage" THEN ProcessExit(1) /\ UNCHANGED failed
       ELSE /\ procPc' = "generate"
            /\ UNCHANGED <<exitCode, workDir, failed>>
    /\ UNCHANGED <<counts, moved>>
    /\ ExitFrame

\* bun run generate.ts through Bun.spawnSync, then panicSubprocess.
Generate(ok) ==
    /\ procPc = "generate"
    /\ IF ok
       THEN /\ procPc' = "diff"
            /\ UNCHANGED <<exitCode, workDir, failed>>
       ELSE Throw("generate")
    /\ UNCHANGED <<counts, moved>>
    /\ ExitFrame

\* collectDiff, the fix pass (only with a download target; its probes never
\* throw) and countDiffFiles. Without a compare configuration collectDiff
\* writes to rec.add only, so nothing is removed, modified or fixed.
CountDiff(c) ==
    /\ procPc = "diff"
    /\ c.fix > 0 => options.downloadTarget
    /\ ~CompareLoaded => (c.remove = 0 /\ c.modify = 0 /\ c.fix = 0)
    /\ counts' = c
    /\ procPc' = IF ~needSync(c) THEN "build"
                 ELSE IF options.downloadTarget /\ c.add + c.modify + c.fix > 0
                      THEN "download" ELSE "relocFix"
    /\ UNCHANGED <<exitCode, workDir, failed, moved>>
    /\ ExitFrame

\* The download loop up to the end of mutex.waitAll(): succeeded is the set
\* of types whose download succeeded, moveOk tells whether the single-file
\* moves of --fast-sync worked.
Download(succeeded, moveOk) ==
    /\ procPc = "download"
    /\ succeeded \subseteq {t \in MvTypes : counts[t] > 0}
    /\ ~options.fastSync => moveOk
    /\ IF options.fastFail /\ succeeded # {t \in MvTypes : counts[t] > 0}
       THEN ProcessExit(1) /\ UNCHANGED <<failed, moved>>
       ELSE IF ~moveOk /\ succeeded # {}
            THEN /\ failed' = "moveSingle"
                 /\ ProcessExit(1)
                 /\ UNCHANGED moved
            ELSE /\ moved' = IF options.fastSync THEN {} ELSE succeeded
                 /\ procPc' = "relocFix"
                 /\ UNCHANGED <<exitCode, workDir, failed>>
    /\ UNCHANGED counts
    /\ ExitFrame

\* if (needMoveCount[type]) await $`rsync -ahr --partial ...`
RelocateStep(mvType, from, to, ok) ==
    /\ procPc = from
    /\ mvType \notin moved => ok
    /\ IF mvType \in moved /\ ~ok
       THEN Throw("relocate")
       ELSE /\ procPc' = to
            /\ UNCHANGED <<exitCode, workDir, failed>>
    /\ UNCHANGED <<counts, moved>>
    /\ ExitFrame

\* syncFrontEnd, first half: pnpm build (only with a www root).
Build(ok) ==
    /\ procPc = "build"
    /\ ~options.wwwRootDir => ok
    /\ IF options.wwwRootDir /\ ~ok
       THEN Throw("build")
       ELSE /\ procPc' = IF options.wwwRootDir THEN "wwwSync"
                         ELSE IF needSync(counts) THEN "remove" ELSE "save"
            /\ UNCHANGED <<exitCode, workDir, failed>>
    /\ UNCHANGED <<counts, moved>>
    /\ ExitFrame

\* syncFrontEnd, second half: rsync of the built site to the www root.
WwwSync(ok) ==
    /\ procPc = "wwwSync"
    /\ IF ~ok
       THEN Throw("wwwSync")
       ELSE /\ procPc' = IF needSync(counts) THEN "remove" ELSE "save"
            /\ UNCHANGED <<exitCode, workDir, failed>>
    /\ UNCHANGED <<counts, moved>>
    /\ ExitFrame

\* A main that writes the --save file before it runs the removal.
RemoveCommandAfterSave(ok) ==
    /\ procPc = "remove"
    /\ counts.remove = 0 => ok
    /\ saved' = options.saveConfigPath
    /\ IF counts.remove > 0 /\ ~ok
       THEN Throw("remove")
       ELSE /\ procPc' = "save"
            /\ UNCHANGED <<exitCode, workDir, failed>>
    /\ UNCHANGED <<counts, moved>>
    /\ ExitRest

\* if (diffCount.remove > 0) await $`rsync -ar --delete --ignore-existing ...`
RemoveCommand(ok) ==
    /\ procPc = "remove"
    /\ counts.remove = 0 => ok
    /\ IF counts.remove > 0 /\ ~ok
       THEN Throw("remove")
       ELSE /\ procPc' = "save"
            /\ UNCHANGED <<exitCode, workDir, failed>>
    /\ UNCHANGED <<counts, moved>>
    /\ ExitFrame

\* if (options.saveConfigPath) await $`rsync -a config.json savePath`
SaveStep(ok) ==
    /\ procPc = "save"
    /\ ~options.saveConfigPath => ok
    /\ IF options.saveConfigPath /\ ~ok
       THEN Throw("save")
       ELSE /\ procPc' = "finish"
            /\ UNCHANGED <<exitCode, workDir, failed>>
    /\ saved' = (options.saveConfigPath /\ ok)
    /\ UNCHANGED <<counts, moved>>
    /\ ExitRest

\* main returned and nothing is left to do: the process ends with code 0.
Finish ==
    /\ procPc = "finish"
    /\ ProcessExit(0)
    /\ UNCHANGED <<failed, counts, moved>>
    /\ ExitFrame

\* SIGINT while the handler is registered: rm -rf workDir, process.exit(130).
Sigint ==
    /\ procPc \notin {"start", "mktemp", "exited", "off"}
    /\ procPc' = "exited"
    /\ exitCode' = <<130>>
    /\ workDir' = ExitHandler(130, Rm(workDir))
    /\ UNCHANGED <<failed, counts, moved>>
    /\ ExitFrame

\* SIGINT before any handler is registered: the default action ends the
\* process, no handler runs.
SigintDefault ==
    /\ procPc \in {"start", "mktemp"}
    /\ procPc' = "exited"
    /\ exitCode' = <<130>>
    /\ UNCHANGED <<workDir, failed, counts, moved>>
    /\ ExitFrame

ExitNext ==
    \/ \E valid \in BOOLEAN : Validate(valid)
    \/ \E ok \in BOOLEAN : MakeWorkDir(ok)
    \/ \E ok \in BOOLEAN : LoadCompare(ok)
    \/ \E ok \in BOOLEAN : Generate(ok)
    \/ \E c \in DiffCounts : CountDiff(c)
    \/ \E succeeded \in SUBSET MvTypes, moveOk \in BOOLEAN : Download(succeeded, moveOk)
    \/ \E ok \in BOOLEAN : RelocateStep("fix", "relocFix", "relocAdd", ok)
    \/ \E ok \in BOOLEAN : RelocateStep("add", "relocAdd", "relocModify", ok)
    \/ \E ok \in BOOLEAN : RelocateStep("modify", "relocModify", "build", ok)
    \/ \E ok \in BOOLEAN : Build(ok)
    \/ \E ok \in BOOLEAN : WwwSync(ok)
    \/ \E ok \in BOOLEAN : RemoveCommand(ok)
    \/ \E ok \in BOOLEAN : SaveStep(ok)
    \/ Finish
    \/ Sigint
    \/ SigintDefault

ExitSpec == ExitInit /\ [][ExitNext]_vars

\* The commands the run depends on: release ingestion, build/publish and
\* the bulk transfers.
FatalCommands == {"generate", "build", "relocate", "wwwSync", "remove", "save"}

\* C22: when the release-ingestion command, the build/publish command or a
\* bulk-transfer command fails, the process ends with exit code 13.
C22_SubprocessExit13 ==
    (procPc = "exited" /\ failed \in FatalCommands) => exitCode = <<13>>

MaxPieces == 3

\* The parts templates are made of: the four placeholders, an unknown
\* placeholder, braces that enclose nothing, lone braces and plain text.
Pieces ==
    {Braced(<<"t", "a", "g">>), Braced(<<"n", "a", "m", "e">>),
     Braced(<<"r", "e", "l", "e", "a", "s", "e">>), Braced(<<"u", "r", "l">>),
     Braced(<<"x">>), <<"{", "}">>, <<"{">>, <<"}">>, <<"a", "/">>}

RECURSIVE Concat(_)
Concat(ps) == IF ps = <<>> THEN <<>> ELSE Head(ps) \o Concat(Tail(ps))

\* Context values, some of which read like placeholders.
Contexts ==
    {UrlTemplateContext(tag, <<"n">>, Braced(<<"n", "a", "m", "e">>), url) :
        tag \in {<<"v", "1">>, Braced(<<"u", "r", "l">>)},
        url \in {<<"u">>, Braced(<<"t", "a", "g">>)}}

\* Everything but the call and its result is idle.
NoProgram ==
    /\ max = 1
    /\ num = 0
    /\ waitingLockers = <<>>
    /\ waitingAllResolvers = <<>>
    /\ len = 0
    /\ waitingResolvers = <<>>
    /\ microtasks = <<>>
    /\ pc = [t \in Lockers \cup Drainers |-> "idle"]
    /\ callSeq = <<>>
    /\ admitSeq = <<>>
    /\ drainedBy = [w \in Drainers |-> {}]
    /\ config = Null
    /\ compareConfig = Null
    /\ rec = Null
    /\ diffPc = "off"
    /\ NoRun
    /\ procPc = "off"
    /\ workDir = [made |-> FALSE, exists |-> FALSE, removals |-> 0]
    /\ failed = "none"
    /\ counts = Null
    /\ moved = {}
    /\ compareFile = "absent"
    /\ saved = FALSE
    /\ buildConfig = Null

RenderInit ==
    /\ NoProgram
    /\ \E ps \in UNION {[1 .. n -> Pieces] : n \in 0 .. MaxPieces} :
       \E ctx \in Contexts :
           call = [fn |-> "render", pieces |-> ps, tmpl |-> Concat(ps), vars |-> ctx]
    /\ result = <<>>

Render ==
    /\ call.fn = "render"
    /\ result = <<>>
    /\ result' = <<render(call.tmpl, call.vars)>>
    /\ UNCHANGED <<mutexVars, diffVars, runVars, call, procPc, workDir, failed, counts, moved,
                   compareFile, saved, buildConfig>>

RenderSpec == RenderInit /\ [][Render]_vars

\* A part of a template after substitution: the value for one of the four
\* placeholders, the part itself otherwise.
Substituted(piece, ctx) ==
    IF \E key \in DOMAIN ctx : piece = Braced(key)
    THEN ctx[CHOOSE key \in DOMAIN ctx : piece = Braced(key)]
    ELSE piece

\* C24: render replaces every occurrence of {tag}, {name}, {release} and
\* {url} by the context value and leaves everything else verbatim, in a
\* single pass: placeholder-like text in a value is not expanded again, and
\* a template without placeholders comes back unchanged.
C24_Render ==
    result # <<>> /\ call.fn = "render" =>
        /\ result[1] = Concat([k \in 1 .. Len(call.pieces) |->
                                   Substituted(call.pieces[k], call.vars)])
        /\ (\A k \in 1 .. Len(call.pieces) :
                \A key \in DOMAIN call.vars : call.pieces[k] # Braced(key))
               => result[1] = call.tmpl

\* {tag}{url} was rendered with a tag value that reads "{url}".
C24_Witness ==
    /\ result # <<>>
    /\ call.fn = "render"
    /\ call.pieces = <<Braced(<<"t", "a", "g">>), Braced(<<"u", "r", "l">>)>>
    /\ call.vars[<<"t", "a", "g">>] = Braced(<<"u", "r", "l">>)
    /\ call.vars[<<"u", "r", "l">>] = <<"u">>
    /\ result[1] = <<"{", "u", "r", "l", "}", "u">>

\* ---------------------------------------------------------------------
\* reduceReleaseTags (generate.ts)
\* ---------------------------------------------------------------------

Digits == {"0", "1", "2", "3", "4", "5", "6", "7", "8", "9"}

\* The end of the longest run of digits that starts at index i (i - 1 if
\* there is no digit at i): what \d+ consumes.
DigitsEnd(tag, i) ==
    LET ends == {j \in i .. Len(tag) : \A k \in i .. j : tag[k] \in Digits}
    IN  IF ends = {} THEN i - 1 ELSE CHOOSE j \in ends : \A k \in ends : k <= j

\* tag.match(/^v?(\d+)(\.(\d+))?/) with major = match[1] and
\* minor = match[3] || "0"; ok is FALSE if the tag does not match.
MatchVersion(tag) ==
    LET start == IF Len(tag) > 0 /\ tag[1] = "v" THEN 2 ELSE 1
        e1 == DigitsEnd(tag, start)
        hasDot == e1 + 1 <= Len(tag) /\ tag[e1 + 1] = "."
        e2 == DigitsEnd(tag, e1 + 2)
    IN  IF e1 < start THEN [ok |-> FALSE, major |-> <<>>, minor |-> <<>>]
        ELSE [ok |-> TRUE,
              major |-> SubSeq(tag, start, e1),
              minor |-> IF hasDot /\ e2 >= e1 + 2 THEN SubSeq(tag, e1 + 2, e2)
                        ELSE <<"0">>]

\* A limit is <<>> when it is undefined and <<n>> for the number n.
Defined(limit) == limit # <<>>

\* !limit: true for undefined and for 0
Falsy(limit) == limit = <<>> \/ limit = <<0>>

\* limit !== undefined && size >= limit
Reached(limit, size) == Defined(limit) /\ size >= limit[1]

\* The index of the entry with this key in a Map kept as a sequence of
\* entries in insertion order, 0 if the Map has no such key.
IndexOf(map, key) ==
    IF \E i \in 1 .. Len(map) : map[i].key = key
    THEN CHOOSE i \in 1 .. Len(map) : map[i].key = key
    ELSE 0

\* The body of the loop over the tags: vmap after one more tag. An entry
\* that was created stays in the Map when a later limit skips the tag.
ReduceStep(vmap, tag, maxEachMajor, maxEachMinor, maxEachPatch) ==
    LET m == MatchVersion(tag)
        mi == IndexOf(vmap, m.major)
    IN  IF ~m.ok THEN vmap
        ELSE IF mi = 0 /\ Reached(maxEachMajor, Len(vmap)) THEN vmap
        ELSE LET vmap1 == IF mi = 0
                          THEN Append(vmap, [key |-> m.major, value |-> <<>>])
                          ELSE vmap
                 a == IndexOf(vmap1, m.major)
                 minorMap == vmap1[a].value
                 ni == IndexOf(minorMap, m.minor)
             IN  IF ni = 0 /\ Reached(maxEachMinor, Len(minorMap)) THEN vmap1
                 ELSE LET minorMap1 == IF ni = 0
                                       THEN Append(minorMap, [key |-> m.minor, value |-> <<>>])
                                       ELSE minorMap
                          b == IndexOf(minorMap1, m.minor)
                          arr == minorMap1[b].value
                      IN  IF Reached(maxEachPatch, Len(arr))
                          THEN [vmap1 EXCEPT ![a].value = minorMap1]
                          ELSE [vmap1 EXCEPT ![a].value =
                                   [minorMap1 EXCEPT ![b].value = Append(arr, tag)]]

RECURSIVE ReduceLoop(_, _, _, _, _)
ReduceLoop(vmap, tags, maxEachMajor, maxEachMinor, maxEachPatch) ==
    IF tags = <<>> THEN vmap
    ELSE ReduceLoop(ReduceStep(vmap, Head(tags), maxEachMajor, maxEachMinor, maxEachPatch),
                    Tail(tags), maxEachMajor, maxEachMinor, maxEachPatch)

\* The tags of all entries, major by major and minor by minor: the order in
\* which the result Set receives them.
Flatten(vmap) == Concat([i \in 1 .. Len(vmap) |->
                    Concat([j \in 1 .. Len(vmap[i].value) |-> vmap[i].value[j].value])])

\* A Set is modelled as the sequence of its elements in insertion order.
reduceReleaseTags(tags, maxEachMajor, maxEachMinor, maxEachPatch) ==
    IF Falsy(maxEachMajor) /\ Falsy(maxEachMinor) /\ Falsy(maxEachPatch)
    THEN tags
    ELSE Flatten(ReduceLoop(<<>>, tags, maxEachMajor, maxEachMinor, maxEachPatch))

MaxTags == 3
MaxLimit == 2

TagPool ==
    {<<"v", "1", ".", "0", ".", "1">>, <<"v", "1", ".", "0", ".", "2">>,
     <<"v", "1", ".", "1", ".", "0">>, <<"2", ".", "0", ".", "0">>,
     <<"v", "1">>, <<"r", "c">>}

\* Sequences of distinct tags: the iteration order of a Set.
TagSets ==
    {s \in UNION {[1 .. n -> TagPool] : n \in 0 .. MaxTags} :
        \A i, j \in 1 .. Len(s) : i # j => s[i] # s[j]}

\* What --reduce accepts for one limit: "*" (undefined) or a number.
Limits == {<<>>} \cup {<<n>> : n \in 0 .. MaxLimit}

ReduceInit ==
    /\ NoProgram
    /\ \E tags \in TagSets, a, b, c \in Limits :
           call = [fn |-> "reduceReleaseTags", tags |-> tags,
                   maxEachMajor |-> a, maxEachMinor |-> b, maxEachPatch |-> c]
    /\ result = <<>>

Reduce ==
    /\ call.fn = "reduceReleaseTags"
    /\ result = <<>>
    /\ result' = <<reduceReleaseTags(call.tags, call.maxEachMajor, call.maxEachMinor,
                                     call.maxEachPatch)>>
    /\ UNCHANGED <<mutexVars, diffVars, runVars, call, procPc, workDir, failed, counts, moved,
                   compareFile, saved, buildConfig>>

ReduceSpec == ReduceInit /\ [][Reduce]_vars

\* The elements of a sequence.
Range(s) == {s[i] : i \in 1 .. Len(s)}

\* The tags of a set that carry a version.
Versioned(S) == {t \in S : MatchVersion(t).ok}

\* The limits hold for a set of kept tags.
WithinLimits(kept, maxMajor, maxMinor, maxPatch) ==
    LET V == Versioned(kept)
    IN  /\ Defined(maxMajor) =>
               Cardinality({MatchVersion(t).major : t \in V}) <= maxMajor[1]
        /\ Defined(maxMinor) =>
               \A t \in V :
                   Cardinality({MatchVersion(u).minor :
                                   u \in {w \in V : MatchVersion(w).major = MatchVersion(t).major}})
                       <= maxMinor[1]
        /\ Defined(maxPatch) =>
               \A t \in V :
                   Cardinality({u \in V : /\ MatchVersion(u).major = MatchVersion(t).major
                                          /\ MatchVersion(u).minor = MatchVersion(t).minor})
                       <= maxPatch[1]

\* Position of a tag in the input.
Pos(tags, t) == CHOOSE i \in 1 .. Len(tags) : tags[i] = t

\* C25: reduceReleaseTags returns a subset of the input with at most
\* maxMajor majors, at most maxMinor minors per major and at most maxPatch
\* tags per (major, minor), preferring the tags that appear first; this for
\* every given limit including 0, while an omitted limit places no bound.
C25_Reduce ==
    result # <<>> /\ call.fn = "reduceReleaseTags" =>
        LET kept == Range(result[1])
            all == Range(call.tags)
        IN  /\ kept \subseteq all
            /\ WithinLimits(kept, call.maxEachMajor, call.maxEachMinor, call.maxEachPatch)
            /\ \A t \in kept, u \in Versioned(all) \ kept :
                   (/\ MatchVersion(u).major = MatchVersion(t).major
                    /\ MatchVersion(u).minor = MatchVersion(t).minor)
                       => Pos(call.tags, t) < Pos(call.tags, u)
            /\ (~Defined(call.maxEachMajor) /\ ~Defined(call.maxEachMinor)
                    /\ ~Defined(call.maxEachPatch)) => kept = all

\* ---------------------------------------------------------------------
\* The semaphore under fair scheduling
\* ---------------------------------------------------------------------

\* The promise-job queue runs every job that reaches its head, and every
\* holder calls release() at some time.
MaxLockCalls == 3

\* The clients of the semaphore with MaxLockCalls calls of lock() and one
\* caller of waitAll().
FairNext ==
    \/ \E t \in Lockers : Len(callSeq) < MaxLockCalls /\ CallLock(t)
    \/ \E t \in Lockers : CallRelease(t)
    \/ CallWaitAll("W1")
    \/ RunLock
    \/ RunRelease
    \/ RunWaitAll

FairSpec ==
    /\ Init
    /\ [][FairNext]_vars
    /\ WF_vars(RunLock)
    /\ WF_vars(RunRelease)
    /\ WF_vars(RunWaitAll)
    /\ \A t \in Lockers : WF_vars(CallRelease(t))

\* C26: a release() that runs while a caller is queued in lock() admits
\* exactly the oldest waiter in the same step and leaves the held count as
\* it was; and every lock() call resolves at some time if every holder
\* calls release() at some time.
C26_HandOff ==
    /\ [][(RunRelease /\ waitingLockers # <<>>) =>
            /\ admitSeq' = Append(admitSeq, [who |-> Head(waitingLockers), by |-> "release"])
            /\ waitingLockers' = Tail(waitingLockers)
            /\ pc'[Head(waitingLockers)] = "holding"
            /\ Holders' = Holders \cup {Head(waitingLockers)}
            /\ num' = num]_vars
    /\ \A t \in Lockers : (pc[t] = "locking") ~> (pc[t] = "holding")

\* C26 witness: with every slot held, two callers were queued and the
\* release() of a holder has admitted the older of them.
C26_Witness ==
    /\ Len(admitSeq) > max
    /\ admitSeq[Len(admitSeq)].by = "release"
    /\ waitingLockers # <<>>
    /\ num = max

\* ---------------------------------------------------------------------
\* The download tasks and their slots
\* ---------------------------------------------------------------------

\* The release() calls of task t that have not run yet.
PendingReleases(t) ==
    Cardinality({i \in 1 .. Len(microtasks) : microtasks[i] = Job("release", t)})
        + Cardinality({i \in 1 .. Len(waitingResolvers) :
                          waitingResolvers[i] = Job("release", t)})

\* The download of task t is over.
Completed(t) == pc[t] \in {"finished", "failed"}

\* The tasks between the resolution of their lock() and their completion.
Running == {t \in Lockers : pc[t] \in {"holding", "downloading", "moving"}}

\* C27: a download task calls release() exactly once, in the step in which
\* it completes, after a success and after a failure (without fail-fast),
\* with and without the --fast-sync move; so the held count is the number of
\* tasks still at work plus the releases that have not run yet, and a
\* completed task keeps no slot.
C27_SlotRelease ==
    /\ [][\A t \in Lockers :
            /\ (~Completed(t) /\ Completed(t)') =>
                   PendingReleases(t)' = PendingReleases(t) + 1
            /\ PendingReleases(t)' > PendingReleases(t) =>
                   (~Completed(t) /\ Completed(t)')]_vars
    /\ [](num = Cardinality(Running) + Sum([t \in Lockers |-> PendingReleases(t)], Lockers))

\* C27 witness: under --fast-sync one task failed, another was moved to the
\* target, and no slot is held any more.
C27_Witness ==
    /\ options # Null
    /\ options.fastSync
    /\ \E t, u \in Lockers : pc[t] = "failed" /\ pc[u] = "finished"
    /\ num = 0
    /\ microtasks = <<>>

\* ---------------------------------------------------------------------
\* The drain between the downloads and the later phases
\* ---------------------------------------------------------------------

\* main is past `await mutex.waitAll()`: in a relocation, in the publish,
\* remove or save step, or at its end.
AfterDrain ==
    mainPc \in {"relocFix", "relocAdd", "relocModify", "publish", "remove", "save", "done"}

\* The tasks of the items the download loop schedules in this run.
Scheduled ==
    IF options # Null /\ options.downloadTarget /\ diff # Null
    THEN {TaskIds[i] : i \in 1 .. Len(iterator(diff, config))}
    ELSE {}

\* The entry of the move list for the item of task t.
MoveEntry(t) == [type |-> TaskOf(t).mvType, tag |-> TaskOf(t).tag, item |-> TaskOf(t).item]

\* C28: without --fast-sync no relocation, publish or remove step starts
\* while a download of the batch is in flight: from the first relocation on
\* every scheduled item has succeeded and is in the move list, or has failed.
C28_DrainBeforeRelocate ==
    (options # Null /\ ~options.fastSync /\ AfterDrain) =>
        \A t \in Scheduled :
            \/ pc[t] = "finished" /\ MoveEntry(t) \in needMoveFiles
            \/ pc[t] = "failed"

\* C28 witness: two slots, the first relocation is about to start after one
\* download succeeded and another failed.
C28_Witness ==
    /\ options # Null
    /\ ~options.fastSync
    /\ max = 2
    /\ mainPc = "relocFix"
    /\ \E t, u \in Scheduled : pc[t] = "finished" /\ pc[u] = "failed"

\* The relocations of whole batches that the run has issued.
BatchRelocations == {i \in 1 .. Len(journal) : journal[i] \in {"fix", "add", "modify"}}

\* C29, as stated: with --fast-sync the drain wait is skipped, main does not
\* wait on mutex.waitAll() before it goes on to publish.
C29_DrainSkipped ==
    (options # Null /\ options.fastSync) => pc[Main] # "waiting"

\* C29, amended: with --fast-sync every downloaded file is moved to its final
\* place by its own task before the task gives its slot back, nothing is
\* put on the move list and no batch relocation is issued; main still waits
\* on mutex.waitAll() and goes on to publish only when every scheduled
\* download is over.
C29_FastSyncStillDrains ==
    /\ [][(options # Null /\ options.fastSync) =>
            \A t \in Lockers :
                (pc[t] # "finished" /\ pc'[t] = "finished") =>
                    /\ pc[t] = "moving"
                    /\ HasKey(target', DestPath(t))
                    /\ target'[DestPath(t)] = downloads[TaskOf(t).mvType][DestPath(t)]
                    /\ ~HasKey(downloads'[TaskOf(t).mvType], DestPath(t))]_vars
    /\ []((options # Null /\ options.fastSync) =>
            /\ needMoveFiles = {}
            /\ BatchRelocations = {}
            /\ AfterDrain => \A t \in Scheduled : Completed(t))
    /\ [][(options # Null /\ options.fastSync /\ mainPc = "drain" /\ mainPc' # "drain"
              /\ exitCode' = <<>>) => pc[Main] = "drained"]_vars

\* C29 witness: under --fast-sync main had to wait in mutex.waitAll() for a
\* download, which was then moved to the target, and is now about to publish.
C29_Witness ==
    /\ options # Null
    /\ options.fastSync
    /\ mainPc = "publish"
    /\ pc[Main] = "drained"
    /\ drainedBy[Main] = "release"
    /\ \E t \in Scheduled : pc[t] = "finished" /\ HasKey(target, DestPath(t))

\* ---------------------------------------------------------------------
\* The accounting of the downloads
\* ---------------------------------------------------------------------

\* Once the download phase has drained, every scheduled item is counted
\* once, as a success or as a failure, and no failed item is in the move list.
CountedOnce ==
    /\ AfterDrain =>
           /\ counter.success + counter.failed = Cardinality(Scheduled)
           /\ counter.success = Cardinality({t \in Scheduled : pc[t] = "finished"})
           /\ counter.failed = Cardinality({t \in Scheduled : pc[t] = "failed"})
    /\ \A t \in Scheduled : pc[t] = "failed" => MoveEntry(t) \notin needMoveFiles

\* No file that a failed download left behind is in the download target.
OnlySuccessesRelocated == \A p \in DOMAIN target : target[p] # Partial

\* C30: without fail-fast, when the download phase has drained, success
\* plus failed equals the number of scheduled items, each item is counted
\* once, and only successfully downloaded items are relocated.
C30_FailureAccounting ==
    (options # Null /\ ~options.fastFail) => (CountedOnce /\ OnlySuccessesRelocated)

\* ---------------------------------------------------------------------
\* Releases without files
\* ---------------------------------------------------------------------

\* A release with zero assets and no archive URLs.
EmptyRelease(release) ==
    release.assets = <<>> /\ release.zip_url = "" /\ release.tar_url = ""

\* The release of this tag had no files in the compare snapshot either.
NothingBefore(cmp, tag) ==
    \/ cmp = Null
    \/ ~MapHas(cmp.releases, "tag", tag)
    \/ EmptyRelease(MapGet(cmp.releases, "tag", tag))

\* C31: a release with zero assets and no archive URLs contributes nothing:
\* its tag is not a key of add, remove, modify or passedModify, with a
\* compare snapshot and with compare null.
C31_EmptyRelease ==
    Done =>
        \A i \in 1 .. Len(config.releases) :
            (EmptyRelease(config.releases[i]) /\ NothingBefore(compareConfig, config.releases[i].tag))
                => /\ ~HasKey(rec.add, config.releases[i].tag)
                   /\ ~HasKey(rec.remove, config.releases[i].tag)
                   /\ ~HasKey(rec.modify, config.releases[i].tag)
                   /\ ~HasKey(rec.passedModify, config.releases[i].tag)

(***************************************************************************)
(* Configurations and the URL template.                                    *)
(***************************************************************************)

\* Some asset of the build configuration carries a rendered download URL.
TemplatedBuild ==
    /\ buildConfig # Null
    /\ options.downloadUrlTmpl = UrlTemplate
    /\ \E i \in 1 .. Len(config.releases) :
          /\ config.releases[i].tag = Tag1
          /\ Len(config.releases[i].assets) > 0
          /\ config.releases[i].assets[1].name = AssetA
          /\ config.releases[i].assets[1].download_url = "https://dl/1"
          /\ buildConfig.releases[i].assets[1].download_url = "/v1/a"

\* C32: no step of a run changes the current or the compare configuration
\* it has loaded (collectDiff and the publish step included); with a URL
\* template the build configuration is the templated copy, and what the save
\* step writes is the configuration with its original URLs.
C32_ConfigImmutable ==
    /\ [][~NextRun => (config' = config /\ compareConfig' = compareConfig)]_vars
    /\ [](buildConfig # Null =>
            buildConfig = BuildConfig(config, options.downloadUrlTmpl))
    /\ []((mainPc = "done" /\ options.saveConfigPath) => savedConfig = config)

C32_Witness ==
    /\ mainPc = "done"
    /\ TemplatedBuild
    /\ savedConfig = config
    /\ \E k \in 1 .. Len(journal) : journal[k] = "remove"

(***************************************************************************)
(* Loading the compare configuration.                                      *)
(***************************************************************************)

\* A compare path is given and what is there is not JSON.
BadCompare == options.compareConfigPath /\ compareFile = "garbage"

\* Nothing was generated, counted, relocated or saved.
BeforeIngestion ==
    /\ procPc \in {"start", "mktemp", "compare", "exited"}
    /\ counts = Null
    /\ moved = {}
    /\ ~saved

\* Where the loading step leaves the process, by the compare path and the
\* file alone.
LoadOutcome(supplied, file) ==
    IF supplied /\ file = "garbage" THEN <<"exited", <<1>>>> ELSE <<"generate", <<>>>>

\* C33: when the copy of the compare file succeeds (or none is needed), the
\* loading step ends the process with status 1 if a compare path is given
\* and the content is not JSON, and otherwise goes on to the generation;
\* which of the two is determined by the compare path and the file. A run
\* with malformed content never generates, counts, relocates or saves, and a
\* run without a loaded compare configuration (no path, or no file) reports
\* additions only.
C33_CompareLoading ==
    /\ [][LoadCompare(TRUE) =>
            <<procPc', exitCode'>> = LoadOutcome(options.compareConfigPath, compareFile)]_vars
    /\ [](BadCompare => BeforeIngestion)
    /\ []((counts # Null /\ ~CompareLoaded) =>
            (counts.remove = 0 /\ counts.modify = 0 /\ counts.fix = 0))

C33_Witness ==
    /\ BadCompare
    /\ workDir.made
    /\ failed = "none"
    /\ exitCode = <<1>>
    /\ procPc = "exited"

(***************************************************************************)
(* Termination of a run.                                                   *)
(***************************************************************************)

\* main is suspended in mutex.waitAll() and nothing is left that could
\* resume it: every scheduled download has finished and given its slot
\* back, and the promise-job queue is empty.
BlockedInWaitAll ==
    /\ mainPc = "drain"
    /\ exitCode = <<>>
    /\ pc[Main] = "waiting"
    /\ microtasks = <<>>
    /\ num = 0
    /\ \A t \in Scheduled : pc[t] \in {"finished", "failed"}

\* A scheduled task is suspended in mutex.lock() and nothing is left that
\* could admit it.
BlockedInLock ==
    /\ mainPc = "download"
    /\ exitCode = <<>>
    /\ microtasks = <<>>
    /\ \E t \in Scheduled : pc[t] = "locking"
    /\ \A t \in Scheduled : pc[t] \in {"locking", "finished", "failed", "idle"}

\* C34: a run whose downloads all finish never stays blocked in lock() or
\* waitAll(): no state is reached in which main or the loop is suspended on
\* the semaphore while every started download has finished and released
\* its slot and no promise job is pending.
C34_NeverBlocked == ~BlockedInWaitAll /\ ~BlockedInLock

(***************************************************************************)
(* A run without a download target.                                        *)
(***************************************************************************)

\* The transfers to a download destination that the run has issued.
TargetTransfers ==
    {k \in 1 .. Len(journal) : journal[k] \in {"fix", "add", "modify", "remove"}}

\* C35: without --download-target a run issues no relocation and no
\* delete-extraneous transfer, to the target or to any other destination,
\* whatever the diff is.
C35_NoTargetNoTransfer ==
    (options # Null /\ ~options.downloadTarget) =>
        (TargetTransfers = {} /\ ~rootSynced)

(***************************************************************************)
(* The remove phase.                                                       *)
(***************************************************************************)

\* The rsync of the remove phase is run against the download target.
TargetRemoval ==
    /\ mainPc = "remove"
    /\ mainPc' = "save"
    /\ options.downloadTarget
    /\ Len(journal') > Len(journal)

\* C36: the remove phase creates and overwrites nothing in the target: the
\* files after it are the files before it that the current snapshot claims,
\* with their content, so a file that was absent before it (one whose
\* download failed) is absent after it.
C36_RemoveOnlyDeletes ==
    [][TargetRemoval =>
          /\ DOMAIN target' =
                DOMAIN target \cap createLocalEmptyDownloadTarget(config)
          /\ \A p \in DOMAIN target' : target'[p] = target[p]]_vars

(***************************************************************************)
(* Where relocated files land.                                             *)
(***************************************************************************)

\* The paths a step wrote in the target: new files and files with new content.
Written == {p \in DOMAIN target' : p \notin DOMAIN target \/ target'[p] # target[p]}

\* C37: every file a run relocates into the target, in a batch or singly,
\* lands at a path of the expected tree of the current snapshot (the tree
\* the remove phase keeps), so the remove phase of the run deletes none of
\* the files the run has added.
C37_RelocatedPathsExpected ==
    [][(mainPc \in {"download", "drain", "relocFix", "relocAdd", "relocModify"}
            /\ options.downloadTarget)
          => Written \subseteq createLocalEmptyDownloadTarget(config)]_vars

(***************************************************************************)
(* The save step.                                                          *)
(***************************************************************************)

\* The order of the steps of main.
PhaseRank ==
    [start |-> 0, mktemp |-> 1, compare |-> 2, generate |-> 3, diff |-> 4,
     download |-> 5, relocFix |-> 6, relocAdd |-> 7, relocModify |-> 8, build |-> 9,
     wwwSync |-> 10, remove |-> 11, save |-> 12, finish |-> 13, exited |-> 14]

\* main ended before its save step had written the file.
AbortedEarly ==
    /\ procPc = "exited"
    /\ \/ exitCode \in {<<1>>, <<2>>, <<13>>}
       \/ failed # "none"

\* C38: the --save file is written by the save step only, which every other
\* step of main precedes (generation, download, relocations, publish,
\* removal, each done or skipped) and only the end of main follows; a run
\* that ends with a failure status or is interrupted before the save step
\* has not written it.
C38_SaveIsLast ==
    /\ [][saved' # saved =>
            (saved' /\ procPc = "save" /\ procPc' = "finish" /\ options.saveConfigPath)]_vars
    /\ [][procPc' # procPc => PhaseRank[procPc'] > PhaseRank[procPc]]_vars
    /\ [](AbortedEarly => ~saved)
    /\ [][(exitCode' = <<130>> /\ exitCode = <<>> /\ PhaseRank[procPc] <= PhaseRank["save"])
            => ~saved']_vars

C38_Witness ==
    /\ options.saveConfigPath
    /\ procPc = "exited"
    /\ failed = "remove"
    /\ counts # Null
    /\ moved # {}
    /\ ~saved

(***************************************************************************)
(* No barging.                                                             *)
(***************************************************************************)

\* The promise job that runs is the callback of a lock() call.
LockJob == microtasks # <<>> /\ Head(microtasks).op = "lock" /\ microtasks' = Tail(microtasks)

\* C39: with one release() per resolved lock(), callers wait only while
\* every slot is taken (a non-empty waitingLockers implies num = max), num
\* stays within 0 .. max, and a lock() whose callback runs while others wait
\* is appended behind them and takes no slot.
C39_NoBarging ==
    /\ [](waitingLockers # <<>> => num = max)
    /\ [](num >= 0 /\ num <= max)
    /\ [][(LockJob /\ waitingLockers # <<>>) =>
            /\ waitingLockers' = Append(waitingLockers, Head(microtasks).who)
            /\ num' = num
            /\ admitSeq' = admitSeq]_vars

\* C39 witness: one slot, held, and two callers queued in the order of
\* their calls.
C39_Witness ==
    /\ max = 1
    /\ num = 1
    /\ Cardinality(Holders) = 1
    /\ Len(waitingLockers) = 2
    /\ Len(callSeq) >= 3
    /\ waitingLockers = SubSeq(callSeq, Len(callSeq) - 1, Len(callSeq))

====
